---- MODULE Spec2Model ----
(***************************************************************************)
(* GeoPlegma: a model of the zone-identifier primitives, the query port    *)
(* and its three backend adapters (DGGRID external process, DGGAL native   *)
(* library, H3 in-process).                                                *)
(*                                                                         *)
(* The module holds several specifications over one set of variables:      *)
(*   SpecZoneId  text <-> ZoneId conversions (api/src/models/common.rs)    *)
(*   SpecDggrid  concurrent DGGRID adapter calls over a shared work dir    *)
(*   SpecDggal   threads calling the DGGAL adapter through the global lock *)
(*   SpecPort    one query against one adapter, with its backend effects   *)
(*   SpecLevel   RefinementLevel and RelativeDepth arithmetic              *)
(* Each specification leaves the variables of the others at their idle     *)
(* values.                                                                 *)
(***************************************************************************)
EXTENDS Integers, Sequences, FiniteSets, TLC

VARIABLES
    \* SpecZoneId
    zcase, zText, zInt, zParsed, zShown, zReparsed, zStage,
    \* SpecDggal
    gApp, gDggal, gAppLock, gDggalLock, gThr,
    \* SpecDggrid
    dFs, dCall,
    \* SpecPort
    pCall, pFs,
    \* SpecDecode
    bVal, bId, bStage, bZ3, bZ7,
    \* SpecRegistry
    rText, rLib, rUid, rGot, rCaps, rStage,
    \* SpecLevel
    nLevel, nDepth, nSum, nStage,
    \* SpecParse
    lKind, lLines, lOut, lStage,
    \* SpecChain
    cStage, cAdapter, cFirst, cIds, cLib, cSecond, cPoint, cHanded,
    \* SpecExport
    eZones, eOut, eBack, eStage

zvars == <<zcase, zText, zInt, zParsed, zShown, zReparsed, zStage>>

gvars == <<gApp, gDggal, gAppLock, gDggalLock, gThr>>

dvars == <<dFs, dCall>>

pvars == <<pCall, pFs>>

bvars == <<bVal, bId, bStage, bZ3, bZ7>>

rvars == <<rText, rLib, rUid, rGot, rCaps, rStage>>

nvars == <<nLevel, nDepth, nSum, nStage>>

lvars == <<lKind, lLines, lOut, lStage>>

cvars == <<cStage, cAdapter, cFirst, cIds, cLib, cSecond, cPoint, cHanded>>

evars == <<eZones, eOut, eBack, eStage>>

vars == <<zvars, gvars, dvars, pvars, bvars, rvars, nvars, lvars, cvars, evars>>

\* what the actions of one specification leave alone
zOthers == <<gvars, dvars, pvars, bvars, rvars, nvars, lvars, cvars, evars>>

gOthers == <<zvars, dvars, pvars, bvars, rvars, nvars, lvars, cvars, evars>>

dOthers == <<zvars, gvars, pvars, bvars, rvars, nvars, lvars, cvars, evars>>

pOthers == <<zvars, gvars, dvars, bvars, rvars, nvars, lvars, cvars, evars>>

bOthers == <<zvars, gvars, dvars, pvars, rvars, nvars, lvars, cvars, evars>>

rOthers == <<zvars, gvars, dvars, pvars, bvars, nvars, lvars, cvars, evars>>

nOthers == <<zvars, gvars, dvars, pvars, bvars, rvars, lvars, cvars, evars>>

lOthers == <<zvars, gvars, dvars, pvars, bvars, rvars, nvars, cvars, evars>>

cOthers == <<zvars, gvars, dvars, pvars, bvars, rvars, nvars, lvars, evars>>

eOthers == <<zvars, gvars, dvars, pvars, bvars, rvars, nvars, lvars, cvars>>

(***************************************************************************)
(* Bounds of the model                                                     *)
(***************************************************************************)
\* every text of at most MaxTextLen characters over Alphabet is an input
MaxTextLen == 3
\* limbs 0..MaxSmallLimb are sampled next to the boundary limbs
MaxSmallLimb == 1
\* worker threads calling the DGGAL adapter
NThreads == 2
\* adapter calls each thread makes
MaxCallsPerThread == 1
\* concurrent callers of the DGGRID adapter in one working directory
NCallers == 2
\* distinct random tokens dggrid::setup can draw
NTokens == 2
\* zone records in one polygon-output file
MaxZones == 2
\* zones a backend enumeration returns
MaxListed == 2
\* records in one output file of the tool
MaxRecords == 2
\* capability queries made on one adapter
MaxQueries == 2

\* lines of a polygon-output file, and of a children or neighbor file
MaxAigenLines == 4

MaxIdListLines == 3

\* the zones of a Zones value handed to the flattened export
MaxExportZones == 2

(***************************************************************************)
(* Text: a string is a sequence of one-character strings.                  *)
(***************************************************************************)
DecDigits == <<"0", "1", "2", "3", "4", "5", "6", "7", "8", "9">>

DigitChars == {DecDigits[i] : i \in 1..10}

HexLetters == {"a", "b", "c", "d", "e", "f", "A", "B", "C", "D", "E", "F"}

\* u8::is_ascii_digit
is_ascii_digit(c) == c \in DigitChars

\* u8::is_ascii_hexdigit
is_ascii_hexdigit(c) == c \in DigitChars \cup HexLetters

\* char::is_whitespace on the sampled alphabet
is_whitespace(c) == c = " "

DigitVal(c) == CHOOSE i \in 0..9 : DecDigits[i + 1] = c

\* s.bytes().all(|b| b.is_ascii_digit())
all_ascii_digit(s) == \A i \in 1..Len(s) : is_ascii_digit(s[i])

\* s.chars().all(|c| c.is_ascii_hexdigit())
all_ascii_hexdigit(s) == \A i \in 1..Len(s) : is_ascii_hexdigit(s[i])

RECURSIVE TrimStart(_)
TrimStart(s) ==
    IF s # <<>> /\ is_whitespace(Head(s)) THEN TrimStart(Tail(s)) ELSE s

RECURSIVE TrimEnd(_)
TrimEnd(s) ==
    IF s # <<>> /\ is_whitespace(s[Len(s)])
    THEN TrimEnd(SubSeq(s, 1, Len(s) - 1))
    ELSE s

\* str::trim
Trim(s) == TrimEnd(TrimStart(s))

RECURSIVE Repeat(_, _)
Repeat(c, n) == IF n = 0 THEN <<>> ELSE <<c>> \o Repeat(c, n - 1)

(***************************************************************************)
(* u64: four 16-bit limbs, most significant first.                         *)
RECURSIVE StripLeadingZeros(_)
\* a numeral without its leading zeros ("0" for zero)
StripLeadingZeros(s) ==
    IF Len(s) > 1 /\ Head(s) = "0" THEN StripLeadingZeros(Tail(s)) ELSE s

(***************************************************************************)
LimbBase == 65536

U64Zero == <<0, 0, 0, 0>>

U64Max == <<65535, 65535, 65535, 65535>>

\* checked v * 10 + d : [ok |-> FALSE] on overflow of the 64 bits
CheckedMulAdd10(v, d) ==
    LET t0 == v[4] * 10 + d
        t1 == v[3] * 10 + (t0 \div LimbBase)
        t2 == v[2] * 10 + (t1 \div LimbBase)
        t3 == v[1] * 10 + (t2 \div LimbBase)
    IN  IF t3 \div LimbBase > 0
        THEN [ok |-> FALSE, val |-> U64Zero]
        ELSE [ok |-> TRUE,
              val |-> <<t3 % LimbBase, t2 % LimbBase, t1 % LimbBase, t0 % LimbBase>>]

\* v divided by 10: quotient and remainder
DivMod10(v) ==
    LET c1 == v[1]
        c2 == (c1 % 10) * LimbBase + v[2]
        c3 == (c2 % 10) * LimbBase + v[3]
        c4 == (c3 % 10) * LimbBase + v[4]
    IN  [quot |-> <<c1 \div 10, c2 \div 10, c3 \div 10, c4 \div 10>>, rem |-> c4 % 10]

RECURSIVE ParseU64From(_, _)
ParseU64From(s, acc) ==
    IF s = <<>> THEN [ok |-> TRUE, val |-> acc]
    ELSE IF ~is_ascii_digit(Head(s)) THEN [ok |-> FALSE, val |-> U64Zero]
    ELSE LET r == CheckedMulAdd10(acc, DigitVal(Head(s)))
         IN  IF r.ok THEN ParseU64From(Tail(s), r.val) ELSE r

\* str::parse::<u64> on a text without sign
ParseU64(s) ==
    IF s = <<>> THEN [ok |-> FALSE, val |-> U64Zero] ELSE ParseU64From(s, U64Zero)

RECURSIVE FmtU64Digits(_)
FmtU64Digits(v) ==
    IF v = U64Zero THEN <<>>
    ELSE LET r == DivMod10(v) IN FmtU64Digits(r.quot) \o <<DecDigits[r.rem + 1]>>

\* Display for u64 ("{i}")
FmtU64(v) == IF v = U64Zero THEN <<"0">> ELSE FmtU64Digits(v)

(***************************************************************************)
(* ZoneId (api/src/models/common.rs)                                       *)
(***************************************************************************)
HexMaxLen == 16

StrMaxLen == 32

Err(kind) == [ok |-> FALSE, err |-> kind]

Ok(v) == [ok |-> TRUE, val |-> v]

StrId(s) == [tag |-> "StrId", text |-> s]

HexId(s) == [tag |-> "HexId", text |-> s]

IntId(v) == [tag |-> "IntId", int |-> v]

\* HexString::new accepting exactly 16 characters only
HexString_new_exact16(s) ==
    IF Len(s) = HexMaxLen /\ all_ascii_hexdigit(s) THEN Ok(s) ELSE Err("InvalidHexId")

\* HexString::new
HexString_new(s) ==
    IF Len(s) <= HexMaxLen /\ all_ascii_hexdigit(s)
    THEN Ok(s)
    ELSE Err("HexId can have a maximum length of 16 hexadecimal characters.")

\* ZoneId::new_str
new_str(s) ==
    IF Len(s) >= 1 /\ Len(s) <= StrMaxLen
    THEN Ok(StrId(s))
    ELSE Err("UnsupportedZoneIdFormat")

\* ZoneId::new_hex
new_hex(s) ==
    LET h == HexString_new(s)
    IN  IF h.ok THEN Ok(HexId(h.val)) ELSE Err("InvalidHexId")

\* ZoneId::new_int
new_int(v) == IntId(v)

\* a parser that tries the hex form before the decimal form
ZoneId_from_str_hex_first(text) ==
    LET s == Trim(text)
        is_hexish == s # <<>> /\ all_ascii_hexdigit(s)
    IN  IF is_hexish /\ new_hex(s).ok THEN new_hex(s)
        ELSE IF s # <<>> /\ all_ascii_digit(s) /\ ParseU64(s).ok
        THEN Ok(new_int(ParseU64(s).val))
        ELSE new_str(s)

\* impl FromStr for ZoneId
ZoneId_from_str(text) ==
    LET s == Trim(text)
        is_hexish == s # <<>> /\ all_ascii_hexdigit(s)
    IN  IF s # <<>> /\ all_ascii_digit(s) /\ ParseU64(s).ok
        THEN Ok(new_int(ParseU64(s).val))
        ELSE IF is_hexish /\ new_hex(s).ok THEN new_hex(s)
        ELSE new_str(s)

\* a renderer that pads hex ids to the full 16 characters
ZoneId_display_padded(z) ==
    CASE z.tag = "StrId" -> z.text
      [] z.tag = "HexId" -> Repeat("0", HexMaxLen - Len(z.text)) \o z.text
      [] z.tag = "IntId" -> FmtU64(z.int)

\* impl Display for ZoneId
ZoneId_display(z) ==
    CASE z.tag = "StrId" -> z.text
      [] z.tag = "HexId" -> z.text
      [] z.tag = "IntId" -> FmtU64(z.int)

(***************************************************************************)
(* Inputs of the conversions                                               *)
(***************************************************************************)
Alphabet == {"0", "1", "9", "a", "F", "g", " "}

ShortTexts == UNION {[1..n -> Alphabet] : n \in 0..MaxTextLen}

\* texts around the length limits 16 and 32 and the 20-digit u64 limit
LongTexts ==
    {Repeat(c, n) : c \in {"0", "9", "a", "g"}, n \in {15, 16, 17, 20, 21, 32, 33}}
    \cup {<<"1">> \o Repeat("0", n) : n \in {15, 16, 19, 20}}
    \cup {<<" ">> \o Repeat(c, n) \o <<" ">> : c \in {"9", "a", "g"}, n \in {16, 20, 32}}
    \cup {FmtU64(U64Max), <<"1", "8", "4", "4", "6", "7", "4", "4", "0", "7", "3",
                            "7", "0", "9", "5", "5", "1", "6", "1", "6">>}

Texts == ShortTexts \cup LongTexts

Limbs == (0..MaxSmallLimb) \cup {9, 10, 99, 65534, 65535}

U64Samples == {<<a, b, c, d>> : a \in Limbs, b \in Limbs, c \in Limbs, d \in Limbs}

NoZone == [tag |-> "none"]

NoResult == [ok |-> FALSE, err |-> "not run"]

(***************************************************************************)
(* SpecZoneId: parse a text and render it, or render an integer id and     *)
(* parse it back.                                                          *)
(***************************************************************************)
ZInit ==
    /\ zStage = "input"
    /\ zParsed = NoResult
    /\ zShown = <<>>
    /\ zReparsed = NoResult
    /\ \/ zcase = "text" /\ zText \in Texts /\ zInt = U64Zero
       \/ zcase = "int" /\ zInt \in U64Samples /\ zText = <<>>

ZIdle ==
    /\ zStage = "idle"
    /\ zcase = "none"
    /\ zText = <<>>
    /\ zInt = U64Zero
    /\ zParsed = NoResult
    /\ zShown = <<>>
    /\ zReparsed = NoResult

\* text.parse::<ZoneId>()
ZParse ==
    /\ zcase = "text" /\ zStage = "input"
    /\ zParsed' = ZoneId_from_str(zText)
    /\ zStage' = "parsed"
    /\ UNCHANGED <<zcase, zText, zInt, zShown, zReparsed>>
    /\ UNCHANGED zOthers

\* zone_id.to_string() of the parsed id
ZShowParsed ==
    /\ zcase = "text" /\ zStage = "parsed" /\ zParsed.ok
    /\ zShown' = ZoneId_display(zParsed.val)
    /\ zStage' = "done"
    /\ UNCHANGED <<zcase, zText, zInt, zParsed, zReparsed>>
    /\ UNCHANGED zOthers

\* ZoneId::IntId(n).to_string()
ZShowInt ==
    /\ zcase = "int" /\ zStage = "input"
    /\ zShown' = ZoneId_display(new_int(zInt))
    /\ zStage' = "shown"
    /\ UNCHANGED <<zcase, zText, zInt, zParsed, zReparsed>>
    /\ UNCHANGED zOthers

\* parse the rendered integer id
ZReparse ==
    /\ zcase = "int" /\ zStage = "shown"
    /\ zReparsed' = ZoneId_from_str(zShown)
    /\ zStage' = "done"
    /\ UNCHANGED <<zcase, zText, zInt, zParsed, zShown>>
    /\ UNCHANGED zOthers

ZNext == ZParse \/ ZShowParsed \/ ZShowInt \/ ZReparse

(***************************************************************************)
(* DGGAL adapter: the two lazily created process-wide contexts and the     *)
(* lock (dggrs/src/adapters/dggal/context.rs, grids.rs)                    *)
(***************************************************************************)
Threads == 1..NThreads

NoThread == 0

\* once_cell::sync::Lazy: the thread that finds the cell uninitialised runs
\* the closure, every other thread waits until the cell is initialised
LazyMayStartInit_racy(cell) == cell.state # "done"

LazyMayStartInit(cell) == cell.state = "uninit"

LazyReady(cell) == cell.state = "done"

\* segments of a DGGAL adapter call: "G" is get_dggrs (lock, DGGRS::new,
\* unlock), "L" is a library call made through the returned handle
\* zones_from_bbox: max_refinement_level(), then either max_refinement_level()
\* again for the error, or get_dggrs + listZones and to_zones
Prog_zones_from_bbox == {<<"G", "L", "G", "L">>}

\* zone_from_point: get_dggrs, getZoneFromWGS84Centroid and to_zones
Prog_zone_from_point == {<<"G", "L">>}

\* zones_from_parent: not an IntId or relative depth too large: no backend
\* access; else get_dggrs, getZoneLevel, max_refinement_level(), then either
\* max_refinement_level() again for the error or getSubZones and to_zones
Prog_zones_from_parent ==
    {<<>>, <<"G", "L", "G", "L", "L">>, <<"G", "L", "G", "L", "G", "L">>}

\* zone_from_id: not an IntId: no backend access; else get_dggrs and to_zones
Prog_zone_from_id == {<<>>, <<"G", "L">>}

DggalOps == {"zones_from_bbox", "zone_from_point", "zones_from_parent", "zone_from_id"}

DggalPrograms(op) ==
    CASE op = "zones_from_bbox" -> Prog_zones_from_bbox
      [] op = "zone_from_point" -> Prog_zone_from_point
      [] op = "zones_from_parent" -> Prog_zones_from_parent
      [] op = "zone_from_id" -> Prog_zone_from_id

GInit ==
    /\ gApp = [state |-> "uninit", created |-> 0]
    /\ gDggal = [state |-> "uninit", created |-> 0]
    /\ gAppLock = NoThread
    /\ gDggalLock = NoThread
    /\ gThr = [t \in Threads |-> [pc |-> "idle", op |-> "none", prog |-> <<>>, calls |-> 0]]

GIdle ==
    /\ gApp = [state |-> "uninit", created |-> 0]
    /\ gDggal = [state |-> "uninit", created |-> 0]
    /\ gAppLock = NoThread
    /\ gDggalLock = NoThread
    /\ gThr = <<>>

\* a thread enters one of the four port operations of DggalImpl
GStartCall(t) ==
    /\ gThr[t].pc = "idle"
    /\ gThr[t].calls < MaxCallsPerThread
    /\ \E op \in DggalOps : \E prog \in DggalPrograms(op) :
          gThr' = [gThr EXCEPT ![t] = [pc |-> "run", op |-> op, prog |-> prog,
                                       calls |-> @.calls + 1]]
    /\ UNCHANGED <<gApp, gDggal, gAppLock, gDggalLock>>
    /\ UNCHANGED gOthers

\* the operation returns to its caller
GReturn(t) ==
    /\ gThr[t].pc = "run" /\ gThr[t].prog = <<>>
    /\ gThr' = [gThr EXCEPT ![t].pc = "idle", ![t].op = "none"]
    /\ UNCHANGED <<gApp, gDggal, gAppLock, gDggalLock>>
    /\ UNCHANGED gOthers

\* get_dggrs: GLOBAL_DGGAL is dereferenced; the first thread runs its closure
GForceDggal(t) ==
    /\ gThr[t].pc = "run" /\ gThr[t].prog # <<>> /\ Head(gThr[t].prog) = "G"
    /\ \/ /\ LazyReady(gDggal)
          /\ gThr' = [gThr EXCEPT ![t].pc = "lock"]
          /\ UNCHANGED gDggal
       \/ /\ ~LazyReady(gDggal) /\ LazyMayStartInit(gDggal)
          /\ gDggal' = [gDggal EXCEPT !.state = "running"]
          /\ gThr' = [gThr EXCEPT ![t].pc = "init_force_app"]
    /\ UNCHANGED <<gApp, gAppLock, gDggalLock>>
    /\ UNCHANGED gOthers

\* closure of GLOBAL_DGGAL: GLOBAL_APP is dereferenced
GForceApp(t) ==
    /\ gThr[t].pc = "init_force_app"
    /\ \/ /\ LazyReady(gApp)
          /\ gThr' = [gThr EXCEPT ![t].pc = "init_lock_app"]
          /\ UNCHANGED gApp
       \/ /\ ~LazyReady(gApp) /\ LazyMayStartInit(gApp)
          /\ gApp' = [gApp EXCEPT !.state = "running"]
          /\ gThr' = [gThr EXCEPT ![t].pc = "app_new"]
    /\ UNCHANGED <<gDggal, gAppLock, gDggalLock>>
    /\ UNCHANGED gOthers

\* closure of GLOBAL_APP: Application::new, wrapped in its Mutex
GAppNew(t) ==
    /\ gThr[t].pc = "app_new"
    /\ gApp' = [state |-> "done", created |-> gApp.created + 1]
    /\ gThr' = [gThr EXCEPT ![t].pc = "init_lock_app"]
    /\ UNCHANGED <<gDggal, gAppLock, gDggalLock>>
    /\ UNCHANGED gOthers

\* closure of GLOBAL_DGGAL: GLOBAL_APP.lock()
GLockApp(t) ==
    /\ gThr[t].pc = "init_lock_app"
    /\ gAppLock = NoThread
    /\ gAppLock' = t
    /\ gThr' = [gThr EXCEPT ![t].pc = "dggal_new"]
    /\ UNCHANGED <<gApp, gDggal, gDggalLock>>
    /\ UNCHANGED gOthers

\* closure of GLOBAL_DGGAL: DGGAL::new(&app), the app guard is dropped
GDggalNew(t) ==
    /\ gThr[t].pc = "dggal_new"
    /\ gDggal' = [state |-> "done", created |-> gDggal.created + 1]
    /\ gAppLock' = NoThread
    /\ gThr' = [gThr EXCEPT ![t].pc = "lock"]
    /\ UNCHANGED <<gApp, gDggalLock>>
    /\ UNCHANGED gOthers

\* get_dggrs: GLOBAL_DGGAL.lock(), then DGGRS::new runs under the guard
GLock(t) ==
    /\ gThr[t].pc = "lock"
    /\ gDggalLock = NoThread
    /\ gDggalLock' = t
    /\ gThr' = [gThr EXCEPT ![t].pc = "lookup"]
    /\ UNCHANGED <<gApp, gDggal, gAppLock>>
    /\ UNCHANGED gOthers

\* get_dggrs returns the handle: the guard is dropped
GLookupDone(t) ==
    /\ gThr[t].pc = "lookup"
    /\ gDggalLock' = NoThread
    /\ gThr' = [gThr EXCEPT ![t].pc = "run", ![t].prog = Tail(@)]
    /\ UNCHANGED <<gApp, gDggal, gAppLock>>
    /\ UNCHANGED gOthers

\* a library call through the handle begins (listZones, getSubZones,
\* getMaxDepth, getZoneLevel, the calls of to_zones)
GLibEnter(t) ==
    /\ gThr[t].pc = "run" /\ gThr[t].prog # <<>> /\ Head(gThr[t].prog) = "L"
    /\ gThr' = [gThr EXCEPT ![t].pc = "lib"]
    /\ UNCHANGED <<gApp, gDggal, gAppLock, gDggalLock>>
    /\ UNCHANGED gOthers

\* the library call returns
GLibLeave(t) ==
    /\ gThr[t].pc = "lib"
    /\ gThr' = [gThr EXCEPT ![t].pc = "run", ![t].prog = Tail(@)]
    /\ UNCHANGED <<gApp, gDggal, gAppLock, gDggalLock>>
    /\ UNCHANGED gOthers

GNext ==
    \E t \in Threads :
        \/ GStartCall(t)
        \/ GReturn(t)
        \/ GForceDggal(t)
        \/ GForceApp(t)
        \/ GAppNew(t)
        \/ GLockApp(t)
        \/ GDggalNew(t)
        \/ GLock(t)
        \/ GLookupDone(t)
        \/ GLibEnter(t)
        \/ GLibLeave(t)

\* the thread is inside a call into the DGGAL library
InLibrary(t) == gThr[t].pc \in {"lookup", "lib", "dggal_new", "app_new"}

(***************************************************************************)
(* RefinementLevel / RelativeDepth (api/src/models/common.rs)              *)
(***************************************************************************)
\* RefinementLevel::new
RefinementLevel_new(value) ==
    IF value < 0 THEN Err("DepthBelowZero") ELSE Ok(value)

\* the largest and the smallest i32
I32Max == 2147483647

I32Min == -I32Max - 1

\* i32 + i32 overflows
AddOverflowsI32(a, b) ==
    \/ a > 0 /\ b > 0 /\ a > I32Max - b
    \/ a < 0 /\ b < 0 /\ a < I32Min - b

\* i32 + i32 in a build without overflow checks: two's complement wrap-around
WrappingAddI32(a, b) ==
    IF a > 0 /\ b > 0 /\ a > I32Max - b THEN (((a - I32Max) - 1) + b) - I32Max - 1
    ELSE IF a < 0 /\ b < 0 /\ a < I32Min - b THEN (((a + I32Max) + 1) + b) + I32Max + 1
    ELSE a + b

\* RefinementLevel::add in a build without overflow checks
RefinementLevel_add(level, rd) == RefinementLevel_new(WrappingAddI32(level, rd))

\* RefinementLevel::add in every build: self.0 + rd.0 panics on overflow when
\* overflow checks are compiled in, and wraps when they are not
RefinementLevel_add_outcomes(level, rd) ==
    {RefinementLevel_add(level, rd)}
    \cup (IF AddOverflowsI32(level, rd) THEN {[ok |-> FALSE, err |-> "panic"]} ELSE {})

\* RelativeDepth::new
RelativeDepth_new(value) ==
    IF value < 0 THEN Err("RelativeDepthBelowZero") ELSE Ok(value)

\* a u32 as two 16-bit limbs <<high, low>>; `value as i32` reinterprets the
\* 32 bits as a two's complement number
U32AsI32(v) ==
    IF v[1] < 32768 THEN v[1] * LimbBase + v[2]
    ELSE (v[1] - LimbBase) * LimbBase + v[2]

\* From<u8>: Self(value as i32)
Level_from_u8(value) == Ok(value)

\* From<u32>: Self(value as i32)
Level_from_u32(v) == Ok(U32AsI32(v))

\* the i32, u8 and u32 values handed to the constructors and conversions
I32Samples == {I32Min, -1, 0, 1, 2, 32, I32Max - 1, I32Max}

U8Samples == {0, 1, 255}

U32Samples == {<<0, 0>>, <<0, 1>>, <<0, 65535>>, <<32767, 65535>>,
               <<32768, 0>>, <<65535, 65535>>}

\* a value and the way it was obtained
Obtained(via, input, r) == [via |-> via, input |-> input, r |-> r]

NoValue == Obtained("none", 0, Err("none"))

\* no add was called on the values held
NoSum == Err("none")

NInit ==
    /\ nLevel = NoValue
    /\ nDepth = NoValue
    /\ nSum = NoSum
    /\ nStage = "run"

NIdle ==
    /\ nLevel = NoValue
    /\ nDepth = NoValue
    /\ nSum = NoSum
    /\ nStage = "off"

\* RefinementLevel::new and TryFrom<i32> for RefinementLevel
NLevelNew ==
    /\ nStage = "run"
    /\ \E v \in I32Samples, via \in {"new", "try_from"} :
          nLevel' = Obtained(via, v, RefinementLevel_new(v))
    /\ nSum' = NoSum
    /\ UNCHANGED <<nDepth, nStage, nOthers>>

\* From<u8> for RefinementLevel
NLevelFromU8 ==
    /\ nStage = "run"
    /\ \E v \in U8Samples : nLevel' = Obtained("from_u8", v, Level_from_u8(v))
    /\ nSum' = NoSum
    /\ UNCHANGED <<nDepth, nStage, nOthers>>

\* From<u32> for RefinementLevel
NLevelFromU32 ==
    /\ nStage = "run"
    /\ \E v \in U32Samples : nLevel' = Obtained("from_u32", v, Level_from_u32(v))
    /\ nSum' = NoSum
    /\ UNCHANGED <<nDepth, nStage, nOthers>>

\* RelativeDepth::new and TryFrom<i32> for RelativeDepth
NDepthNew ==
    /\ nStage = "run"
    /\ \E v \in I32Samples, via \in {"new", "try_from"} :
          nDepth' = Obtained(via, v, RelativeDepth_new(v))
    /\ nSum' = NoSum
    /\ UNCHANGED <<nLevel, nStage, nOthers>>

\* From<u8> for RelativeDepth
NDepthFromU8 ==
    /\ nStage = "run"
    /\ \E v \in U8Samples : nDepth' = Obtained("from_u8", v, Level_from_u8(v))
    /\ nSum' = NoSum
    /\ UNCHANGED <<nLevel, nStage, nOthers>>

\* From<u32> for RelativeDepth
NDepthFromU32 ==
    /\ nStage = "run"
    /\ \E v \in U32Samples : nDepth' = Obtained("from_u32", v, Level_from_u32(v))
    /\ nSum' = NoSum
    /\ UNCHANGED <<nLevel, nStage, nOthers>>

\* level.add(depth) on the values held: nSum is what the call returns
NAdd ==
    /\ nStage = "run"
    /\ nLevel.r.ok /\ nDepth.r.ok
    /\ nSum = NoSum
    /\ \E s \in RefinementLevel_add_outcomes(nLevel.r.val, nDepth.r.val) : nSum' = s
    /\ UNCHANGED <<nLevel, nDepth, nStage, nOthers>>

NNext ==
    \/ NLevelNew
    \/ NLevelFromU8
    \/ NLevelFromU32
    \/ NDepthNew
    \/ NDepthFromU8
    \/ NDepthFromU32
    \/ NAdd

(***************************************************************************)
(* Z3 zone identifiers (dggrs/src/adapters/dggrid/isea3h.rs)               *)
(***************************************************************************)
HexChars == <<"0", "1", "2", "3", "4", "5", "6", "7", "8", "9",
              "a", "b", "c", "d", "e", "f">>

\* value of a hexadecimal digit (u64::from_str_radix(_, 16))
HexVal(c) ==
    IF c \in DigitChars THEN DigitVal(c)
    ELSE CASE c \in {"a", "A"} -> 10 [] c \in {"b", "B"} -> 11
           [] c \in {"c", "C"} -> 12 [] c \in {"d", "D"} -> 13
           [] c \in {"e", "E"} -> 14 [] c \in {"f", "F"} -> 15

Z3Digits == 30

\* the 64 bits of the hex text as 16 nibbles, most significant first
Nibbles(hex) == [i \in 1..HexMaxLen |->
                    IF i <= HexMaxLen - Len(hex) THEN 0
                    ELSE HexVal(hex[i - (HexMaxLen - Len(hex))])]

\* the digits read from bit 63 downward instead of bit 59
Z3Digit_from_bit63(hex, i) ==
    LET n == Nibbles(hex)[1 + (i \div 2)]
    IN  IF i % 2 = 0 THEN n \div 4 ELSE n % 4

\* ((v >> (60 - 2 * (i + 1))) & 0b11) for i in 0..30
Z3Digit(hex, i) ==
    LET n == Nibbles(hex)[2 + (i \div 2)]
    IN  IF i % 2 = 0 THEN n \div 4 ELSE n % 4

RECURSIVE Z3FirstPadding(_, _)
Z3FirstPadding(hex, i) ==
    IF i = Z3Digits THEN Z3Digits
    ELSE IF Z3Digit(hex, i) = 3 THEN i
    ELSE Z3FirstPadding(hex, i + 1)

\* get_refinement_level_from_z3_zone_id; the unwrap of from_str_radix panics
\* on the empty text
get_refinement_level_from_z3_zone_id(zid) ==
    IF zid.tag # "HexId" THEN Err("InvalidZ3Format")
    ELSE IF zid.text = <<>> THEN [ok |-> FALSE, err |-> "panic"]
    ELSE RefinementLevel_new(Z3FirstPadding(zid.text, 0))

\* a Z3 id of base cell 0 at resolution r: r digits 0,1,2,0,1,2,... then padding
Z3Nibble(r, k) ==
    LET d(i) == IF i >= r THEN 3 ELSE i % 3
    IN  d(2 * k) * 4 + d(2 * k + 1)

Z3Hex(r) == HexId([i \in 1..HexMaxLen |->
                     IF i = 1 THEN "0" ELSE HexChars[Z3Nibble(r, i - 2) + 1]])

(***************************************************************************)
(* DGGRID adapter (dggrs/src/adapters/dggrid/common.rs, isea3h.rs)         *)
(***************************************************************************)
Callers == 1..NCallers

\* samples of the random 16-character tokens of Alphanumeric.sample_string
TokenSamples == <<"aB3dE6gH9jK2mN5p", "Zy8xW7vU6tS5rQ4p", "0000000000000000",
                  "q1q1q1q1q1q1q1q1", "M0M0M0M0M0M0M0M0">>

Tokens == {TokenSamples[i] : i \in 1..NTokens}

\* workdir.join(&code).with_extension(ext)
PathOf(code, ext) == [stem |-> code, ext |-> ext]

\* dggrid::setup with the bbox file under a fixed name
setup_fixed_bbox(code) ==
    [meta_path |-> PathOf(code, "meta"),
     aigen_path |-> PathOf(code, "gen"),
     children_path |-> PathOf(code, "chd"),
     neighbor_path |-> PathOf(code, "nbr"),
     bbox_path |-> PathOf("bbox", "bbox"),
     input_path |-> PathOf(code, "txt")]

\* dggrid::setup: the six paths of a call derived from its token
setup(code) ==
    [meta_path |-> PathOf(code, "meta"),
     aigen_path |-> PathOf(code, "gen"),
     children_path |-> PathOf(code, "chd"),
     neighbor_path |-> PathOf(code, "nbr"),
     bbox_path |-> PathOf(code, "bbox"),
     input_path |-> PathOf(code, "txt")]

SixPaths(p) == {p.meta_path, p.aigen_path, p.children_path, p.neighbor_path,
                p.bbox_path, p.input_path}

\* the file system of the working directory: path -> content
FsWrite(fs, path, content) ==
    [x \in DOMAIN fs \cup {path} |-> IF x = path THEN content ELSE fs[x]]

\* fs::remove_file, its result ignored
FsRemove(fs, paths) == [x \in DOMAIN fs \ paths |-> fs[x]]

FsExists(fs, path) == path \in DOMAIN fs

EmptyFs == <<>>

\* DggrsPortConfig
Config(region, center, vertex_count, children, neighbors, area_sqm, densify) ==
    [region |-> region, center |-> center, vertex_count |-> vertex_count,
     children |-> children, neighbors |-> neighbors, area_sqm |-> area_sqm,
     densify |-> densify]

\* impl Default for DggrsPortConfig
DefaultConfig == Config(TRUE, TRUE, TRUE, TRUE, TRUE, TRUE, TRUE)

DggridOps == {"zones_from_bbox", "zone_from_point", "zones_from_parent", "zone_from_id"}

NoPaths == setup("")

\* a call that has not started
IdleCall ==
    [pc |-> "idle", op |-> "none", code |-> "", paths |-> NoPaths,
     level |-> 0, hasBbox |-> FALSE, depth |-> 0, zid |-> NoZone,
     cfg |-> DefaultConfig, target |-> 0, clip |-> 0, execs |-> 0,
     tool_failed |-> FALSE, zones |-> <<>>, result |-> NoResult, log |-> <<>>]

\* the call returned or unwound
Finished(call) == call.pc = "done"

InFlight(call) == call.pc \notin {"idle", "done"}

Return(call, result) == [call EXCEPT !.pc = "done", !.result = result]

Panic(call) == [call EXCEPT !.pc = "done", !.result = [ok |-> FALSE, err |-> "panic"]]

RECURSIVE SortedSeq(_)
\* the keys of a BTreeMap in iteration order
SortedSeq(S) ==
    IF S = {} THEN <<>>
    ELSE LET m == CHOOSE x \in S : \A y \in S : x <= y
         IN  <<m>> \o SortedSeq(S \ {m})

\* read::parse_aigen_to_zones_map: one zone per record, keyed by id in a
\* BTreeMap (a later record of the same id replaces the earlier one)
parse_aigen_to_zones_map(text) ==
    IF text.kind = "garbage" THEN Err("parse")
    ELSE LET recs == text.records
             ids == {recs[i].id : i \in 1..Len(recs)}
             last(id) == CHOOSE i \in 1..Len(recs) :
                            /\ recs[i].id = id
                            /\ \A j \in 1..Len(recs) : recs[j].id = id => j <= i
         IN  Ok([id \in ids |->
                   [id |-> id,
                    center |-> "Some",
                    region |-> IF recs[last(id)].nv >= 2 THEN "Some" ELSE "None",
                    children |-> "None", neighbors |-> "None",
                    vertex_count |-> "None", area_sqm |-> "None"]])

\* read::parse_id_list
parse_id_list(text) ==
    IF text.kind = "garbage" THEN Err("parse") ELSE Ok(text.keys)

\* the Option a field takes when it is computed from the region
FromRegion(wanted, region) == IF wanted /\ region = "Some" THEN "Some" ELSE "None"

\* output::ingest
ingest(fs, aigen_path, children_path, neighbors_path, conf) ==
    IF ~FsExists(fs, aigen_path) THEN Err("FileRead")
    ELSE IF ~parse_aigen_to_zones_map(fs[aigen_path]).ok THEN Err("parse")
    ELSE IF conf.children /\ ~FsExists(fs, children_path) THEN Err("FileRead")
    ELSE IF conf.children /\ ~parse_id_list(fs[children_path]).ok THEN Err("parse")
    ELSE IF conf.neighbors /\ ~FsExists(fs, neighbors_path) THEN Err("FileRead")
    ELSE IF conf.neighbors /\ ~parse_id_list(fs[neighbors_path]).ok THEN Err("parse")
    ELSE LET zones_map == parse_aigen_to_zones_map(fs[aigen_path]).val
             children_map == IF conf.children
                             THEN parse_id_list(fs[children_path]).val ELSE {}
             neighbors_map == IF conf.neighbors
                              THEN parse_id_list(fs[neighbors_path]).val ELSE {}
             order == SortedSeq(DOMAIN zones_map)
             assemble(z) ==
                [id |-> z.id,
                 children |-> IF z.id \in children_map THEN "Some" ELSE "None",
                 neighbors |-> IF z.id \in neighbors_map THEN "Some" ELSE "None",
                 vertex_count |-> FromRegion(conf.vertex_count, z.region),
                 area_sqm |-> FromRegion(conf.area_sqm, z.region),
                 region |-> IF conf.region THEN z.region ELSE "None",
                 center |-> IF conf.center THEN z.center ELSE "None"]
         IN  Ok([i \in 1..Len(order) |-> assemble(zones_map[order[i]])])

\* cleanup: fs::remove_file on every path handed over
cleanup(fs, paths) == FsRemove(fs, paths)

\* the paths an operation of Isea3hImpl hands to cleanup or removes itself
Isea3hRemoved(op, p) ==
    {p.meta_path, p.aigen_path, p.children_path, p.neighbor_path, p.bbox_path}
    \cup (IF op = "zone_from_point" THEN {p.input_path} ELSE {})

\* the head of an operation of Isea3hImpl: setup, and for the id-based
\* operations the decoding of the zone id and the target level
Isea3hStart(op, code, level, hasBbox, depth, zid, cfg) ==
    LET call == [IdleCall EXCEPT !.pc = "write", !.op = op, !.code = code,
                                 !.paths = setup(code), !.level = level,
                                 !.hasBbox = hasBbox, !.depth = depth,
                                 !.zid = zid, !.cfg = cfg]
        res == get_refinement_level_from_z3_zone_id(zid)
        sum == RefinementLevel_add(res.val, depth)
    IN  CASE op \in {"zones_from_bbox", "zone_from_point"} ->
                [call EXCEPT !.target = level]
          [] op = "zones_from_parent" ->
                IF ~res.ok THEN Return(call, res)
                ELSE IF ~sum.ok THEN Return(call, sum)
                ELSE [call EXCEPT !.target = sum.val, !.clip = res.val]
          [] op = "zone_from_id" ->
                IF ~res.ok THEN Return(call, res)
                ELSE [call EXCEPT !.target = res.val]

\* the call with one more step in its record of what it did to its files:
\* "write" (metafile, bbox or input file), "exec" (the tool ran), "read"
\* (the output files were read) or "delete" (the files were removed)
Logged(call, step) == [call EXCEPT !.log = Append(@, step)]

\* a line the metafile does not hold
NoLine == <<"absent">>

\* format!("{}") and format!("{:?}") of an integer n: its digits
NumberOf(n) == <<n>>

\* format!("{:?}") of a tuple struct holding n: Name(n)
DebugOf(name, n) == <<name, "(", n, ")">>

\* write::metafile and the lines isea3h.rs appends
MetaContent(call) ==
    [kind |-> "meta", dggs_res_spec |-> call.target,
     children |-> call.cfg.children, neighbors |-> call.cfg.neighbors,
     densify |-> call.cfg.densify, op |-> call.op,
     clip_cell_res |-> IF call.op = "zones_from_parent"
                       THEN DebugOf("RefinementLevel", call.clip) ELSE NoLine,
     clip_cell_addresses |-> IF call.op = "zones_from_parent"
                             THEN ZoneId_display(call.zid) ELSE NoLine]

\* the writes of an operation: metafile, isea3h_metafile, the appended lines
\* and the bbox or input file; iofail holds the files whose creation fails
Isea3hWrite(call, fs, iofail) ==
    LET p == call.paths
        fs1 == IF "meta" \in iofail THEN fs
               ELSE FsWrite(fs, p.meta_path, MetaContent(call))
        fs2 == IF call.op = "zones_from_bbox" /\ call.hasBbox /\ "bbox" \notin iofail
               THEN FsWrite(fs1, p.bbox_path, [kind |-> "bbox"])
               ELSE fs1
        fs3 == FsWrite(fs1, p.input_path, [kind |-> "input"])
        wrote == Logged(call, "write")
    IN  IF ~FsExists(fs1, p.meta_path)
        THEN [call |-> Panic(call), fs |-> fs1]
        ELSE IF call.op \in {"zone_from_point", "zone_from_id"}
        THEN IF "txt" \in iofail
             THEN [call |-> Panic(wrote), fs |-> fs1]
             ELSE [call |-> [wrote EXCEPT !.pc = "exec"], fs |-> fs3]
        ELSE [call |-> [wrote EXCEPT !.pc = "exec"], fs |-> fs2]

\* dggrid::execute: the tool runs once on the metafile, its outcome ignored;
\* out is what the tool does: "fail" (it cannot be started, or exits with an
\* error before it writes), "crashed" (it exits with an error after it
\* wrote) or "wrote" (it exits with success), with the files it writes
execute(call, fs, out) ==
    LET p == call.paths
        runs == out.kind # "fail" /\ FsExists(fs, p.meta_path)
        m == fs[p.meta_path]
        fs1 == FsWrite(fs, p.aigen_path, out.gen)
        fs2 == IF m.children THEN FsWrite(fs1, p.children_path, out.chd) ELSE fs1
        fs3 == IF m.neighbors THEN FsWrite(fs2, p.neighbor_path, out.nbr) ELSE fs2
    IN  [call |-> [Logged(call, "exec") EXCEPT !.pc = "parse", !.execs = @ + 1,
                                               !.tool_failed = out.kind # "wrote"],
         fs |-> IF runs THEN fs3 ELSE fs]

\* dggrid_parse(...)? : an error returns from the operation at once
Isea3hParse(call, fs) ==
    LET p == call.paths
        r == ingest(fs, p.aigen_path, p.children_path, p.neighbor_path, call.cfg)
    IN  IF r.ok THEN [Logged(call, "read") EXCEPT !.pc = "cleanup", !.zones = r.val]
        ELSE Return(Logged(call, "read"), r)

\* a cleanup that puts the metafile back after the files were removed
Isea3hCleanup_rewrites(call, fs) ==
    [call |-> Return(Logged(Logged(call, "delete"), "write"), Ok(call.zones)),
     fs |-> FsWrite(cleanup(fs, Isea3hRemoved(call.op, call.paths)),
                    call.paths.meta_path, MetaContent(call))]

\* dggrid_cleanup, remove_file(input_path) in zone_from_point, Ok(result)
Isea3hCleanup(call, fs) ==
    [call |-> Return(Logged(call, "delete"), Ok(call.zones)),
     fs |-> cleanup(fs, Isea3hRemoved(call.op, call.paths))]

(***************************************************************************)
(* What the external tool may leave behind                                 *)
(***************************************************************************)
\* zone records of a polygon-output file: id k stands for the k-th hex id in
\* lexicographic order, nv is the number of vertex lines of the record
GenRecords ==
    {[id |-> k, nv |-> 7] : k \in 1..MaxZones} \cup {[id |-> 1, nv |-> 0]}

GenTexts ==
    {[kind |-> "garbage"]}
    \cup {[kind |-> "aigen", records |-> r] :
             r \in UNION {[1..n -> GenRecords] : n \in 0..MaxRecords}}

IdsOf(gen) ==
    IF gen.kind = "garbage" THEN {} ELSE {gen.records[i].id : i \in 1..Len(gen.records)}

\* every outcome of one run of the tool
ToolOutcomes ==
    {[kind |-> "fail"]}
    \cup {[kind |-> "wrote", gen |-> g,
           chd |-> [kind |-> "ids", keys |-> k],
           nbr |-> [kind |-> "ids", keys |-> k]] :
             g \in GenTexts, k \in {{}, 1..MaxZones}}
    \cup {[kind |-> "crashed", gen |-> g,
           chd |-> [kind |-> "ids", keys |-> {}],
           nbr |-> [kind |-> "ids", keys |-> {}]] :
             g \in {t \in GenTexts : t.kind = "aigen" => Len(t.records) <= 1}}

\* the outcomes sampled when several calls run side by side
ToolOutcomesPar ==
    {o \in ToolOutcomes :
        \/ o.kind = "fail"
        \/ /\ o.gen.kind = "aigen" /\ Len(o.gen.records) = 1
           /\ o.gen.records[1] = [id |-> 1, nv |-> 7]
           /\ o.chd.keys # {}}

\* the file whose creation fails, if any
IoFailures == {{}, {"meta"}, {"bbox"}, {"txt"}}

\* the zone ids handed to the id-based operations: a Z3 id of resolution 9
\* and an integer id
DggridZoneIds == {Z3Hex(9), IntId(<<0, 0, 0, 7>>)}

(***************************************************************************)
(* SpecDggrid: callers of Isea3hImpl sharing one working directory         *)
(***************************************************************************)
DInit ==
    /\ dFs = EmptyFs
    /\ dCall = [c \in Callers |-> IdleCall]

DIdle ==
    /\ dFs = EmptyFs
    /\ dCall = <<>>

\* a caller enters an operation: setup draws the token
DStart(c) ==
    /\ dCall[c].pc = "idle"
    /\ \E op \in DggridOps : \E code \in Tokens : \E hasBbox \in BOOLEAN :
       \E zid \in DggridZoneIds :
          /\ op # "zones_from_bbox" => ~hasBbox
          /\ op \in {"zones_from_bbox", "zone_from_point"} => zid = Z3Hex(9)
          /\ dCall' = [dCall EXCEPT ![c] =
                          Isea3hStart(op, code, 3, hasBbox, 1, zid, DefaultConfig)]
    /\ UNCHANGED dFs
    /\ UNCHANGED dOthers

\* the metafile and the bbox or input file are written
DWrite(c) ==
    /\ dCall[c].pc = "write"
    /\ \E iofail \in IoFailures :
          LET r == Isea3hWrite(dCall[c], dFs, iofail)
          IN  /\ dCall' = [dCall EXCEPT ![c] = r.call]
              /\ dFs' = r.fs
    /\ UNCHANGED dOthers

\* the external tool runs
DExecute(c) ==
    /\ dCall[c].pc = "exec"
    /\ \E out \in ToolOutcomesPar :
          LET r == execute(dCall[c], dFs, out)
          IN  /\ dCall' = [dCall EXCEPT ![c] = r.call]
              /\ dFs' = r.fs
    /\ UNCHANGED dOthers

\* the output files are read and parsed
DParse(c) ==
    /\ dCall[c].pc = "parse"
    /\ dCall' = [dCall EXCEPT ![c] = Isea3hParse(dCall[c], dFs)]
    /\ UNCHANGED dFs
    /\ UNCHANGED dOthers

\* the temp files are deleted and the operation returns Ok
DCleanup(c) ==
    /\ dCall[c].pc = "cleanup"
    /\ LET r == Isea3hCleanup(dCall[c], dFs)
       IN  /\ dCall' = [dCall EXCEPT ![c] = r.call]
           /\ dFs' = r.fs
    /\ UNCHANGED dOthers

DNext ==
    \E c \in Callers :
        \/ DStart(c)
        \/ DWrite(c)
        \/ DExecute(c)
        \/ DParse(c)
        \/ DCleanup(c)

(***************************************************************************)
(* One query against one adapter: the call, its result and the backend     *)
(* resources it touched                                                    *)
(***************************************************************************)
\* no metafile was written
NoMeta == [kind |-> "none"]

\* a port call before it ran
PortCall(adapter, op, level, hasBbox, depth, zid, cfg) ==
    [adapter |-> adapter, op |-> op, level |-> level, hasBbox |-> hasBbox,
     depth |-> depth, zid |-> zid, cfg |-> cfg,
     stage |-> "done", result |-> NoResult, fx |-> {},
     max_level |-> 0, max_depth |-> 0, parent_res |-> 0, backend_res |-> 0,
     listed |-> <<>>, execs |-> 0, tool_failed |-> FALSE, iofail |-> {},
     meta |-> NoMeta]

NoCall ==
    [PortCall("none", "none", 0, FALSE, 0, NoZone, DefaultConfig) EXCEPT !.stage = "idle"]

\* every DggrsPortConfig
Configs ==
    {Config(r, c, v, ch, n, a, d) :
        r \in BOOLEAN, c \in BOOLEAN, v \in BOOLEAN, ch \in BOOLEAN,
        n \in BOOLEAN, a \in BOOLEAN, d \in BOOLEAN}

\* the configs sampled for the external-process adapter
ConfigsDggrid == {c \in Configs : c.densify /\ (c.children <=> c.neighbors)}

LimitError(kind) == [ok |-> FALSE, err |-> kind, limit |-> TRUE]

IsLimitError(r) == ~r.ok /\ "limit" \in DOMAIN r

\* Isea3hImpl capability queries
Isea3h_max_refinement_level == 32

Isea3h_max_relative_depth == 8

Isea3h_default_refinement_level == 4

\* the resources a DGGRID call touched: File::create on the metafile once
\* the head of the operation is passed, the tool once execute is reached
Isea3hFx(start, call) ==
    (IF start.pc = "done" THEN {} ELSE {"tempfile"})
    \cup (IF call.execs > 0 THEN {"process"} ELSE {})

\* a whole operation of Isea3hImpl on a working directory fs: the steps of
\* SpecDggrid run to completion for one tool outcome and one i/o failure
Isea3hRun(start, fs, iofail, out) ==
    IF start.pc = "done" THEN [call |-> start, fs |-> fs]
    ELSE LET w == Isea3hWrite(start, fs, iofail)
         IN  IF w.call.pc = "done" THEN w
             ELSE LET e == execute(w.call, w.fs, out)
                      q == Isea3hParse(e.call, e.fs)
                  IN  IF q.pc = "done" THEN [call |-> q, fs |-> e.fs]
                      ELSE Isea3hCleanup(q, e.fs)

\* the i/o failures that make the writes unwind: the tool is never reached
Unwinds(start, iofail) ==
    start.pc # "done" /\ Isea3hWrite(start, EmptyFs, iofail).call.pc = "done"

PortLevels(max, default) == {0, default, max, max + 1}

PortDepths(max) == {0, 1, max, max + 1}

\* the zone ids of the records of the polygon-output file, in file order
ListedBy(out) ==
    IF out.kind # "fail" /\ out.gen.kind = "aigen"
    THEN [i \in 1..Len(out.gen.records) |-> out.gen.records[i].id]
    ELSE <<>>

\* the metafile the writes of the call leave for the tool
WrittenMeta(start, iofail) ==
    LET w == Isea3hWrite(start, EmptyFs, iofail)
    IN  IF start.pc # "done" /\ FsExists(w.fs, start.paths.meta_path)
        THEN w.fs[start.paths.meta_path] ELSE NoMeta

\* the result of a DGGRID call as a port call
Isea3hDone(op, level, hasBbox, depth, zid, cfg, start, run, iofail, out) ==
    [PortCall("DGGRID", op, level, hasBbox, depth, zid, cfg) EXCEPT
        !.result = run.call.result,
        !.fx = Isea3hFx(start, run.call),
        !.max_level = Isea3h_max_refinement_level,
        !.max_depth = Isea3h_max_relative_depth,
        !.parent_res = run.call.clip,
        !.backend_res = run.call.target,
        !.listed = IF run.call.execs > 0 THEN ListedBy(out) ELSE <<>>,
        !.execs = run.call.execs,
        !.tool_failed = run.call.tool_failed,
        !.iofail = IF start.pc = "done" THEN {} ELSE iofail,
        !.meta = WrittenMeta(start, iofail)]

\* Isea3hImpl: one operation from setup to its return
PIsea3h(op, level, hasBbox, depth, zid) ==
    /\ pCall.stage = "idle"
    /\ \E cfg \in ConfigsDggrid : \E iofail \in IoFailures :
          LET start == Isea3hStart(op, TokenSamples[1], level, hasBbox, depth, zid, cfg)
          IN  \/ /\ start.pc = "done" \/ Unwinds(start, iofail)
                 /\ LET run == Isea3hRun(start, EmptyFs, iofail, [kind |-> "fail"])
                    IN  /\ pCall' = Isea3hDone(op, level, hasBbox, depth, zid, cfg,
                                              start, run, iofail, [kind |-> "fail"])
                        /\ pFs' = run.fs
              \/ /\ start.pc # "done" /\ ~Unwinds(start, iofail)
                 /\ \E out \in ToolOutcomes :
                       LET run == Isea3hRun(start, EmptyFs, iofail, out)
                       IN  /\ pCall' = Isea3hDone(op, level, hasBbox, depth, zid, cfg,
                                                 start, run, iofail, out)
                           /\ pFs' = run.fs
    /\ UNCHANGED pOthers

\* the zone ids handed to the id-based operations of Isea3hImpl
Isea3hZoneIds == {Z3Hex(0), Z3Hex(9), Z3Hex(29), Z3Hex(30), IntId(<<0, 0, 0, 7>>)}

PIsea3h_zones_from_bbox ==
    \E level \in PortLevels(Isea3h_max_refinement_level, Isea3h_default_refinement_level) :
    \E hasBbox \in BOOLEAN :
        PIsea3h("zones_from_bbox", level, hasBbox, 0, NoZone)

PIsea3h_zone_from_point ==
    \E level \in PortLevels(Isea3h_max_refinement_level, Isea3h_default_refinement_level) :
        PIsea3h("zone_from_point", level, FALSE, 0, NoZone)

PIsea3h_zones_from_parent ==
    \E depth \in PortDepths(Isea3h_max_relative_depth) : \E zid \in Isea3hZoneIds :
        PIsea3h("zones_from_parent", 0, FALSE, depth, zid)

PIsea3h_zone_from_id ==
    \E zid \in Isea3hZoneIds : PIsea3h("zone_from_id", 0, FALSE, 0, zid)

(***************************************************************************)
(* H3 adapter (dggrs/src/adapters/h3o/h3.rs, common.rs)                    *)
(***************************************************************************)
\* the registry entry of H3 (self.id.spec())
H3_max_refinement_level == 16

H3_default_refinement_level == 2

H3_max_relative_depth == 6

\* the finest h3o::Resolution
H3MaxResolution == 15

\* the resolution the tiler of zones_from_bbox is built with
H3TilerResolution == 2

\* the length of the text of a cell index
H3TextLen == 15

\* a cell index: its resolution and which cell of an enumeration it is
H3Cell(res, k) == [res |-> res, k |-> k]

\* CellIndex::to_string: mode nibble, resolution nibble, then the cell
H3CellText(cell) ==
    [i \in 1..H3TextLen |->
        CASE i = 1 -> "8"
          [] i = 2 -> HexChars[cell.res + 1]
          [] i = 3 -> "0"
          [] i = 4 -> HexChars[cell.k + 1]
          [] OTHER -> "f"]

\* CellIndex::from_str on the text of a zone id
H3CellFromStr(text) ==
    IF /\ Len(text) = H3TextLen
       /\ all_ascii_hexdigit(text)
       /\ text[1] = "8"
    THEN Ok(H3Cell(HexVal(text[2]), HexVal(text[4])))
    ELSE Err("InvalidZoneID")

\* refinement_level_to_h3_resolution
refinement_level_to_h3_resolution(level) ==
    IF level >= 0 /\ level <= H3MaxResolution THEN Ok(level)
    ELSE Err("CannotTranslateToH3Resolution")

\* n cells of one resolution, as a backend enumeration returns them
H3Listed(res, n) == [i \in 1..n |-> H3Cell(res, i)]

\* a zone of the port
Zone(id, region, center, vertex_count, children, neighbors, area_sqm) ==
    [id |-> id, region |-> region, center |-> center,
     vertex_count |-> vertex_count, children |-> children,
     neighbors |-> neighbors, area_sqm |-> area_sqm]

Opt(b) == IF b THEN "Some" ELSE "None"

\* the zone ids of the cells of a backend enumeration, in its order
H3ZoneIdsOf(cells) == [i \in 1..Len(cells) |-> new_hex(H3CellText(cells[i])).val]

\* h3o::common::to_zones
H3_to_zones(cells, conf) ==
    LET region == Opt(conf.region \/ conf.area_sqm \/ conf.vertex_count)
        zone(c) ==
            Zone(new_hex(H3CellText(c)).val, region, Opt(conf.center),
                 FromRegion(conf.vertex_count, region), Opt(conf.children),
                 Opt(conf.neighbors), FromRegion(conf.area_sqm, region))
    IN  IF \E i \in 1..Len(cells) : ~new_hex(H3CellText(cells[i])).ok
        THEN Err("InvalidHex")
        ELSE IF conf.children /\ \E i \in 1..Len(cells) : cells[i].res >= H3MaxResolution
        THEN Err("ResolutionLimitReached")
        ELSE Ok([i \in 1..Len(cells) |-> zone(cells[i])])

H3Call(op, level, hasBbox, depth, zid, cfg) ==
    [PortCall("H3", op, level, hasBbox, depth, zid, cfg) EXCEPT
        !.max_level = H3_max_refinement_level,
        !.max_depth = H3_max_relative_depth]

\* H3Impl::zones_from_bbox; n is the number of cells the backend enumerates
H3_zones_from_bbox(level, hasBbox, cfg, n) ==
    LET call == [H3Call("zones_from_bbox", level, hasBbox, 0, NoZone, cfg) EXCEPT
                    !.fx = {"tiler_build"}]
    IN  IF hasBbox
        THEN [call EXCEPT !.fx = @ \cup {"tiler"},
                          !.backend_res = H3TilerResolution,
                          !.listed = H3ZoneIdsOf(H3Listed(H3TilerResolution, n)),
                          !.result = H3_to_zones(H3Listed(H3TilerResolution, n), cfg)]
        ELSE IF level > H3_default_refinement_level
        THEN [call EXCEPT !.result = LimitError("RefinementLevelTooHigh")]
        ELSE IF ~refinement_level_to_h3_resolution(level).ok
        THEN [call EXCEPT !.result = [ok |-> FALSE, err |-> "panic"]]
        ELSE [call EXCEPT !.fx = @ \cup {"h3"},
                          !.backend_res = level,
                          !.listed = H3ZoneIdsOf(H3Listed(level, n)),
                          !.result = H3_to_zones(H3Listed(level, n), cfg)]

\* H3Impl::zone_from_point, on a finite point
H3_zone_from_point(level, cfg) ==
    LET call == H3Call("zone_from_point", level, FALSE, 0, NoZone, cfg)
        res == refinement_level_to_h3_resolution(level)
    IN  IF ~res.ok THEN [call EXCEPT !.result = res]
        ELSE [call EXCEPT !.fx = {"h3"},
                          !.backend_res = res.val,
                          !.listed = H3ZoneIdsOf(<<H3Cell(res.val, 1)>>),
                          !.result = H3_to_zones(<<H3Cell(res.val, 1)>>, cfg)]

\* H3Impl::zones_from_parent; n is the number of children the backend returns
H3_zones_from_parent(depth, zid, cfg, n) ==
    LET call == H3Call("zones_from_parent", 0, FALSE, depth, zid, cfg)
        parent == H3CellFromStr(ZoneId_display(zid))
        target == RefinementLevel_add(parent.val.res, depth)
        res == refinement_level_to_h3_resolution(target.val)
    IN  IF ~parent.ok THEN [call EXCEPT !.result = parent]
        ELSE IF ~target.ok
        THEN [call EXCEPT !.result = target, !.parent_res = parent.val.res]
        ELSE IF target.val > H3_max_refinement_level
        THEN [call EXCEPT !.parent_res = parent.val.res,
                 !.result = LimitError("RefinementLevelPlusRelativeDepthLimitReached")]
        ELSE IF ~res.ok
        THEN [call EXCEPT !.result = res, !.parent_res = parent.val.res]
        ELSE [call EXCEPT !.fx = {"h3"},
                          !.parent_res = parent.val.res,
                          !.backend_res = res.val,
                          !.listed = H3ZoneIdsOf(H3Listed(res.val, n)),
                          !.result = H3_to_zones(H3Listed(res.val, n), cfg)]

\* H3Impl::zone_from_id
H3_zone_from_id(zid, cfg) ==
    LET call == H3Call("zone_from_id", 0, FALSE, 0, zid, cfg)
        cell == H3CellFromStr(ZoneId_display(zid))
    IN  IF ~cell.ok THEN [call EXCEPT !.result = cell]
        ELSE [call EXCEPT !.fx = {"h3"},
                          !.backend_res = cell.val.res,
                          !.listed = H3ZoneIdsOf(<<cell.val>>),
                          !.result = H3_to_zones(<<cell.val>>, cfg)]

\* the zone ids handed to the id-based operations of H3Impl
H3ZoneIds ==
    {HexId(H3CellText(H3Cell(r, 1))) : r \in {0, 10, 11, H3MaxResolution}}
    \cup {IntId(<<0, 0, 0, 7>>)}

\* the number of cells a backend enumeration returns
ListedCounts == 0..MaxListed

PH3_zones_from_bbox ==
    /\ pCall.stage = "idle"
    /\ \E level \in PortLevels(H3_max_refinement_level, H3_default_refinement_level) :
       \E hasBbox \in BOOLEAN : \E cfg \in Configs : \E n \in ListedCounts :
          pCall' = H3_zones_from_bbox(level, hasBbox, cfg, n)
    /\ UNCHANGED pFs
    /\ UNCHANGED pOthers

PH3_zone_from_point ==
    /\ pCall.stage = "idle"
    /\ \E level \in PortLevels(H3_max_refinement_level, H3_default_refinement_level)
                      \cup {H3MaxResolution} :
       \E cfg \in Configs :
          pCall' = H3_zone_from_point(level, cfg)
    /\ UNCHANGED pFs
    /\ UNCHANGED pOthers

PH3_zones_from_parent ==
    /\ pCall.stage = "idle"
    /\ \E depth \in PortDepths(H3_max_relative_depth) : \E zid \in H3ZoneIds :
       \E cfg \in Configs : \E n \in ListedCounts \ {0} :
          pCall' = H3_zones_from_parent(depth, zid, cfg, n)
    /\ UNCHANGED pFs
    /\ UNCHANGED pOthers

PH3_zone_from_id ==
    /\ pCall.stage = "idle"
    /\ \E zid \in H3ZoneIds : \E cfg \in Configs :
          pCall' = H3_zone_from_id(zid, cfg)
    /\ UNCHANGED pFs
    /\ UNCHANGED pOthers

(***************************************************************************)
(* DGGAL adapter, one call at a time (dggrs/src/adapters/dggal/grids.rs,   *)
(* common.rs)                                                              *)
(***************************************************************************)
\* DggalImpl::max_relative_depth
Dggal_max_relative_depth == 4

\* DggalImpl::default_refinement_level
Dggal_default_refinement_level == 2

\* the values getMaxDepth returns for the grids of the library
LibMaxDepths == {16, 33}

\* what the library does on a call: lib.state is "ok", "poisoned" (the lock
\* fails) or "unknown_grid" (DGGRS::new fails); lib.max_depth is getMaxDepth,
\* lib.zone_level is getZoneLevel of the zone asked about, lib.listed the
\* number of zones an enumeration returns, lib.edges is countZoneEdges
Library(state, max_depth, zone_level, listed, edges) ==
    [state |-> state, max_depth |-> max_depth, zone_level |-> zone_level,
     listed |-> listed, edges |-> edges]

\* get_dggrs: the lock on GLOBAL_DGGAL, then DGGRS::new
get_dggrs(lib) ==
    CASE lib.state = "poisoned" -> [ok |-> FALSE, err |-> "LockFailure", fx |-> {"lock"}]
      [] lib.state = "unknown_grid" ->
            [ok |-> FALSE, err |-> "UnknownGrid", fx |-> {"lock", "library"}]
      [] OTHER -> [ok |-> TRUE, val |-> lib, fx |-> {"lock", "library"}]

\* DggalImpl::max_refinement_level
Dggal_max_refinement_level(lib) ==
    LET dggrs == get_dggrs(lib)
        level == RefinementLevel_new(lib.max_depth)
    IN  IF ~dggrs.ok THEN [ok |-> FALSE, err |-> "UnknownGrid", fx |-> dggrs.fx]
        ELSE IF ~level.ok THEN [ok |-> FALSE, err |-> level.err, fx |-> dggrs.fx]
        ELSE [ok |-> TRUE, val |-> level.val, fx |-> dggrs.fx]

\* n zones as an enumeration of the library returns them
DggalListed(n) == [i \in 1..n |-> <<0, 0, 0, i>>]

\* the zone ids of the zones of a library enumeration, in its order
DggalZoneIdsOf(zones) == [i \in 1..Len(zones) |-> new_int(zones[i])]

\* dggal::common::to_zones
Dggal_to_zones(lib, zones, conf) ==
    LET region == Opt(conf.neighbors \/ conf.area_sqm)
        zone(z) ==
            Zone(new_int(z), region, Opt(conf.center), Opt(conf.vertex_count),
                 Opt(conf.children), Opt(conf.neighbors),
                 FromRegion(conf.area_sqm, region))
    IN  IF conf.vertex_count /\ zones # <<>> /\ lib.edges < 0
        THEN Err("EdgeCountConversion")
        ELSE Ok([i \in 1..Len(zones) |-> zone(zones[i])])

DggalCall(op, level, hasBbox, depth, zid, cfg, lib) ==
    [PortCall("DGGAL", op, level, hasBbox, depth, zid, cfg) EXCEPT
        !.max_level = lib.max_depth,
        !.max_depth = Dggal_max_relative_depth]

\* the Err a failed step hands back, without the resources it touched
ErrOf(r) == [ok |-> FALSE, err |-> r.err]

\* DggalImpl::zones_from_bbox
Dggal_zones_from_bbox(level, hasBbox, cfg, lib) ==
    LET call == DggalCall("zones_from_bbox", level, hasBbox, 0, NoZone, cfg, lib)
        max == Dggal_max_refinement_level(lib)
        dggrs == get_dggrs(lib)
    IN  IF ~max.ok THEN [call EXCEPT !.result = ErrOf(max), !.fx = max.fx]
        ELSE IF level > max.val
        THEN [call EXCEPT !.result = LimitError("DepthLimitReached"), !.fx = max.fx]
        ELSE IF ~dggrs.ok
        THEN [call EXCEPT !.result = ErrOf(dggrs), !.fx = max.fx \cup dggrs.fx]
        ELSE [call EXCEPT !.fx = max.fx \cup dggrs.fx,
                          !.backend_res = level,
                          !.listed = DggalZoneIdsOf(DggalListed(lib.listed)),
                          !.result = Dggal_to_zones(lib, DggalListed(lib.listed), cfg)]

\* DggalImpl::zone_from_point
Dggal_zone_from_point(level, cfg, lib) ==
    LET call == DggalCall("zone_from_point", level, FALSE, 0, NoZone, cfg, lib)
        dggrs == get_dggrs(lib)
    IN  IF ~dggrs.ok THEN [call EXCEPT !.result = ErrOf(dggrs), !.fx = dggrs.fx]
        ELSE [call EXCEPT !.fx = dggrs.fx,
                          !.backend_res = level,
                          !.listed = DggalZoneIdsOf(DggalListed(1)),
                          !.result = Dggal_to_zones(lib, DggalListed(1), cfg)]

\* ZoneId::as_u64
as_u64(zid) == IF zid.tag = "IntId" THEN Ok(zid.int) ELSE Err("UnsupportedZoneIdFormat")

\* DggalImpl::zones_from_parent
Dggal_zones_from_parent(depth, zid, cfg, lib) ==
    LET call == DggalCall("zones_from_parent", 0, FALSE, depth, zid, cfg, lib)
        parent_u64 == as_u64(zid)
        dggrs == get_dggrs(lib)
        parent_level == RefinementLevel_new(lib.zone_level)
        target_level == RefinementLevel_add(parent_level.val, depth)
        max == Dggal_max_refinement_level(lib)
        seen == [call EXCEPT !.fx = dggrs.fx, !.parent_res = lib.zone_level]
    IN  IF ~parent_u64.ok THEN [call EXCEPT !.result = parent_u64]
        ELSE IF depth > Dggal_max_relative_depth
        THEN [call EXCEPT !.result = LimitError("RelativeDepthLimitReached")]
        ELSE IF ~dggrs.ok THEN [call EXCEPT !.result = ErrOf(dggrs), !.fx = dggrs.fx]
        ELSE IF ~parent_level.ok THEN [seen EXCEPT !.result = parent_level]
        ELSE IF ~target_level.ok THEN [seen EXCEPT !.result = target_level]
        ELSE IF ~max.ok THEN [seen EXCEPT !.result = ErrOf(max)]
        ELSE IF target_level.val > max.val
        THEN [seen EXCEPT
                 !.result = LimitError("RefinementLevelPlusRelativeDepthLimitReached")]
        ELSE [seen EXCEPT !.backend_res = depth,
                          !.listed = DggalZoneIdsOf(DggalListed(lib.listed)),
                          !.result = Dggal_to_zones(lib, DggalListed(lib.listed), cfg)]

\* DggalImpl::zone_from_id
Dggal_zone_from_id(zid, cfg, lib) ==
    LET call == DggalCall("zone_from_id", 0, FALSE, 0, zid, cfg, lib)
        zone_u64 == as_u64(zid)
        dggrs == get_dggrs(lib)
    IN  IF ~zone_u64.ok THEN [call EXCEPT !.result = zone_u64]
        ELSE IF ~dggrs.ok THEN [call EXCEPT !.result = ErrOf(dggrs), !.fx = dggrs.fx]
        ELSE [call EXCEPT !.fx = dggrs.fx,
                          !.listed = DggalZoneIdsOf(<<zone_u64.val>>),
                          !.result = Dggal_to_zones(lib, <<zone_u64.val>>, cfg)]

\* what the library may do during one call
LibrariesOf(d) ==
    {Library(st, d, zl, n, e) :
        st \in {"ok", "poisoned", "unknown_grid"},
        zl \in {-1, 0, d - 1, d}, n \in ListedCounts, e \in {-1, 6}}

Libraries == UNION {LibrariesOf(d) : d \in LibMaxDepths}

\* the zone ids handed to the id-based operations of DggalImpl
DggalZoneIds == {IntId(<<0, 0, 0, 7>>), IntId(U64Max), HexId(H3CellText(H3Cell(0, 1)))}

PDggal_zones_from_bbox ==
    /\ pCall.stage = "idle"
    /\ \E lib \in Libraries :
       \E level \in PortLevels(lib.max_depth, Dggal_default_refinement_level) :
       \E hasBbox \in BOOLEAN : \E cfg \in Configs :
          /\ lib.zone_level = 0
          /\ pCall' = Dggal_zones_from_bbox(level, hasBbox, cfg, lib)
    /\ UNCHANGED pFs
    /\ UNCHANGED pOthers

PDggal_zone_from_point ==
    /\ pCall.stage = "idle"
    /\ \E lib \in Libraries :
       \E level \in PortLevels(lib.max_depth, Dggal_default_refinement_level) :
       \E cfg \in Configs :
          /\ lib.zone_level = 0 /\ lib.listed = 1
          /\ pCall' = Dggal_zone_from_point(level, cfg, lib)
    /\ UNCHANGED pFs
    /\ UNCHANGED pOthers

PDggal_zones_from_parent ==
    /\ pCall.stage = "idle"
    /\ \E lib \in Libraries : \E depth \in PortDepths(Dggal_max_relative_depth) :
       \E zid \in DggalZoneIds : \E cfg \in Configs :
          /\ pCall' = Dggal_zones_from_parent(depth, zid, cfg, lib)
    /\ UNCHANGED pFs
    /\ UNCHANGED pOthers

PDggal_zone_from_id ==
    /\ pCall.stage = "idle"
    /\ \E lib \in Libraries : \E zid \in DggalZoneIds : \E cfg \in Configs :
          /\ lib.zone_level = 0 /\ lib.listed = 1
          /\ pCall' = Dggal_zone_from_id(zid, cfg, lib)
    /\ UNCHANGED pFs
    /\ UNCHANGED pOthers

(***************************************************************************)
(* SpecPort: one query against one adapter                                 *)
(***************************************************************************)
PInit ==
    /\ pCall = NoCall
    /\ pFs = EmptyFs

PIdle ==
    /\ pCall = [NoCall EXCEPT !.stage = "off"]
    /\ pFs = EmptyFs

(***************************************************************************)
(* Z7 zone identifiers (dggrs/src/adapters/dggrid/igeo7.rs)                *)
(***************************************************************************)
Z7Digits == 20

\* the highest base cell
MaxBaseCell == 11

\* str::strip_prefix("0x") or strip_prefix("0X")
StripHexPrefix(t) ==
    IF Len(t) >= 2 /\ t[1] = "0" /\ t[2] \in {"x", "X"}
    THEN SubSeq(t, 3, Len(t)) ELSE t

\* u64::from_str_radix(_, 16): an optional plus sign, at least one hex digit,
\* a value below 2^64; Ok carries the significant hex digits
from_str_radix_16(t) ==
    LET d == IF t # <<>> /\ Head(t) = "+" THEN Tail(t) ELSE t
    IN  IF d = <<>> \/ ~all_ascii_hexdigit(d) THEN Err("ParseIntError")
        ELSE IF Len(StripLeadingZeros(d)) > HexMaxLen THEN Err("ParseIntError")
        ELSE Ok(StripLeadingZeros(d))

\* bit b (63 down to 0) of the value of a hex text
BitOf(hex, b) ==
    LET n == Nibbles(hex)[HexMaxLen - (b \div 4)]
    IN  (n \div (2 ^ (b % 4))) % 2

\* ((v >> (60 - 3 * (i + 1))) & 0b111) for i in 0..20
Z7Digit(hex, i) ==
    LET shift == 60 - 3 * (i + 1)
    IN  4 * BitOf(hex, shift + 2) + 2 * BitOf(hex, shift + 1) + BitOf(hex, shift)

RECURSIVE Z7FirstPadding(_, _)
Z7FirstPadding(hex, i) ==
    IF i = Z7Digits THEN Z7Digits
    ELSE IF Z7Digit(hex, i) = 7 THEN i
    ELSE Z7FirstPadding(hex, i + 1)

\* extract_res_from_z7
extract_res_from_z7(dggrid_z7_id) ==
    LET v == from_str_radix_16(StripHexPrefix(dggrid_z7_id))
    IN  IF ~v.ok THEN Err("Invalid hex for Z7 INT64")
        ELSE IF Nibbles(v.val)[1] > MaxBaseCell THEN Err("Invalid base cell")
        ELSE Ok(Z7FirstPadding(v.val, 0))

(***************************************************************************)
(* SpecDecode: the two resolution decoders applied to zone identifiers     *)
(***************************************************************************)
\* the 16-bit quarters the sampled 64-bit values are made of: all zero, the
\* Z3 digits 0,1,2,0,1,2,0,1, the digits 0,1,2,3 then padding, all ones,
\* base cell 12 then zero digits, a Z7 padding digit 7 after one zero
\* digit, and the digits 2,0,1,2,0,1,2,0
LimbSamples == {0, 390, 7167, 65535, 49152, 448, 34328}

DecodeValues ==
    {<<a, b, c, d>> : a \in LimbSamples, b \in LimbSamples,
                      c \in {0, 390, 7167, 65535}, d \in {0, 65535}}

\* format!("{:04x}") of a 16-bit quarter
HexOfLimb(l) ==
    <<HexChars[(l \div 4096) + 1], HexChars[((l \div 256) % 16) + 1],
      HexChars[((l \div 16) % 16) + 1], HexChars[(l % 16) + 1]>>

\* format!("{:016x}") of a 64-bit value
Hex16(v) == HexOfLimb(v[1]) \o HexOfLimb(v[2]) \o HexOfLimb(v[3]) \o HexOfLimb(v[4])

\* the zone ids a 64-bit value is handed over as
DecodeIdsOf(v) ==
    {HexId(Hex16(v)), HexId(StripLeadingZeros(Hex16(v))), IntId(v),
     StrId(<<"0", "x">> \o Hex16(v)), StrId(<<"g">> \o Hex16(v))}

BInit ==
    /\ bVal \in DecodeValues
    /\ bId \in DecodeIdsOf(bVal)
    /\ bStage = "input"
    /\ bZ3 = NoResult
    /\ bZ7 = NoResult

BIdle ==
    /\ bVal = U64Zero
    /\ bId = NoZone
    /\ bStage = "idle"
    /\ bZ3 = NoResult
    /\ bZ7 = NoResult

\* the Z3 decoder is applied to the zone id
BDecodeZ3 ==
    /\ bStage = "input"
    /\ bZ3' = get_refinement_level_from_z3_zone_id(bId)
    /\ bStage' = "z3"
    /\ UNCHANGED <<bVal, bId, bZ7>>
    /\ UNCHANGED bOthers

\* the Z7 decoder is applied to the text of the zone id
BDecodeZ7 ==
    /\ bStage = "z3"
    /\ bZ7' = extract_res_from_z7(ZoneId_display(bId))
    /\ bStage' = "z7"
    /\ UNCHANGED <<bVal, bId, bZ3>>
    /\ UNCHANGED bOthers

BNext == BDecodeZ3 \/ BDecodeZ7

(***************************************************************************)
(* The registry, identifier parsing and the factory (api/src/constants.rs, *)
(* api/src/models/common.rs, api/src/factory.rs)                           *)
(***************************************************************************)
UpperLetters == <<"A", "B", "C", "D", "E", "F", "G", "H", "I", "J", "K", "L", "M", "N", "O", "P", "Q", "R", "S", "T", "U", "V", "W", "X", "Y", "Z">>

LowerLetters == <<"a", "b", "c", "d", "e", "f", "g", "h", "i", "j", "k", "l", "m", "n", "o", "p", "q", "r", "s", "t", "u", "v", "w", "x", "y", "z">>

\* char::to_ascii_lowercase
to_ascii_lowercase_char(c) ==
    IF \E i \in 1..Len(UpperLetters) : UpperLetters[i] = c
    THEN LowerLetters[CHOOSE i \in 1..Len(UpperLetters) : UpperLetters[i] = c]
    ELSE c

\* str::to_ascii_lowercase
to_ascii_lowercase(t) == [i \in 1..Len(t) |-> to_ascii_lowercase_char(t[i])]

\* str::replace('_', "-")
replace_underscore(t) == [i \in 1..Len(t) |-> IF t[i] = "_" THEN "-" ELSE t[i]]

\* impl Display for DggrsName
DggrsName_display(name) ==
    CASE name = "ISEA3H" -> <<"I", "S", "E", "A", "3", "H">>
      [] name = "IGEO7" -> <<"I", "G", "E", "O", "7">>
      [] name = "H3" -> <<"H", "3">>
      [] name = "IVEA3H" -> <<"I", "V", "E", "A", "3", "H">>
      [] name = "IVEA9R" -> <<"I", "V", "E", "A", "9", "R">>
      [] name = "ISEA9R" -> <<"I", "S", "E", "A", "9", "R">>
      [] name = "RTEA3H" -> <<"R", "T", "E", "A", "3", "H">>
      [] name = "RTEA9R" -> <<"R", "T", "E", "A", "9", "R">>

\* impl Display for DggrsImplementation
DggrsImplementation_display(tool) ==
    CASE tool = "Native" -> <<"N", "a", "t", "i", "v", "e">>
      [] tool = "DGGRID" -> <<"D", "G", "G", "R", "I", "D">>
      [] tool = "DGGAL" -> <<"D", "G", "G", "A", "L">>
      [] tool = "H3O" -> <<"H", "3", "O">>

\* RefinementLevel::new_const, RelativeDepth::new_const
new_const(v) == v

\* a DggrsSpec with the default and the maximum refinement level exchanged
DggrsSpec_swapped(id, name, tool, min, max, default, max_rel, default_rel) ==
    [id |-> id, name |-> name, tool |-> tool,
     min_refinement_level |-> new_const(min),
     max_refinement_level |-> new_const(default),
     default_refinement_level |-> new_const(max),
     max_relative_depth |-> new_const(max_rel),
     default_relative_depth |-> new_const(default_rel)]

\* struct DggrsSpec
DggrsSpec(id, name, tool, min, max, default, max_rel, default_rel) ==
    [id |-> id, name |-> name, tool |-> tool,
     min_refinement_level |-> new_const(min),
     max_refinement_level |-> new_const(max),
     default_refinement_level |-> new_const(default),
     max_relative_depth |-> new_const(max_rel),
     default_relative_depth |-> new_const(default_rel)]

\* the registry table
DGGRS_SPECS == <<
    DggrsSpec("ISEA3HDGGRID", "ISEA3H", "DGGRID", 0, 36, 3, 8, 5),
    DggrsSpec("IGEO7", "IGEO7", "DGGRID", 0, 20, 2, 5, 3),
    DggrsSpec("H3", "H3", "H3O", 0, 16, 2, 6, 4),
    DggrsSpec("ISEA3HDGGAL", "ISEA3H", "DGGAL", 0, 33, 3, 11, 8),
    DggrsSpec("IVEA3H", "IVEA3H", "DGGAL", 0, 33, 3, 11, 8),
    DggrsSpec("ISEA9R", "ISEA9R", "DGGAL", 0, 16, 2, 8, 2),
    DggrsSpec("IVEA9R", "IVEA9R", "DGGAL", 0, 16, 2, 6, 4),
    DggrsSpec("RTEA3H", "RTEA3H", "DGGAL", 0, 33, 2, 11, 8),
    DggrsSpec("RTEA9R", "RTEA9R", "DGGAL", 0, 16, 2, 6, 4)>>

\* enum DggrsUid
DggrsUids == {"ISEA3HDGGRID", "IGEO7", "H3", "ISEA3HDGGAL", "IVEA3H",
              "ISEA9R", "IVEA9R", "RTEA3H", "RTEA9R"}

\* DggrsUid::idx with the arms of H3 and ISEA3HDGGAL exchanged
idx_exchanged(uid) ==
    CASE uid = "ISEA3HDGGRID" -> 0 [] uid = "IGEO7" -> 1 [] uid = "H3" -> 3
      [] uid = "ISEA3HDGGAL" -> 2 [] uid = "IVEA3H" -> 4 [] uid = "ISEA9R" -> 5
      [] uid = "IVEA9R" -> 6 [] uid = "RTEA3H" -> 7 [] uid = "RTEA9R" -> 8

\* DggrsUid::idx
idx(uid) ==
    CASE uid = "ISEA3HDGGRID" -> 0 [] uid = "IGEO7" -> 1 [] uid = "H3" -> 2
      [] uid = "ISEA3HDGGAL" -> 3 [] uid = "IVEA3H" -> 4 [] uid = "ISEA9R" -> 5
      [] uid = "IVEA9R" -> 6 [] uid = "RTEA3H" -> 7 [] uid = "RTEA9R" -> 8

\* DggrsUid::spec
spec(uid) == DGGRS_SPECS[idx(uid) + 1]

\* format!("{}{}", spec.name, spec.tool)
CanonicalText(e) == DggrsName_display(e.name) \o DggrsImplementation_display(e.tool)

\* spec.name.to_string()
ShortText(e) == DggrsName_display(e.name)

\* the first entry in table order that matches, without a look at the others
FirstMatch(S) == CHOOSE i \in S : \A j \in S : i <= j

\* impl FromStr for DggrsUid
DggrsUid_from_str(input) ==
    LET norm == replace_underscore(to_ascii_lowercase(Trim(input)))
        matches == {i \in 1..Len(DGGRS_SPECS) :
                       \/ norm = to_ascii_lowercase(CanonicalText(DGGRS_SPECS[i]))
                       \/ norm = to_ascii_lowercase(ShortText(DGGRS_SPECS[i]))}
    IN  IF matches = {} THEN Err("Unknown")
        ELSE Ok(DGGRS_SPECS[FirstMatch(matches)].id)

\* an adapter as the factory hands it out
Adapter(impl, id) == [impl |-> impl, id |-> id]

\* factory::get with the adapters of the DGGAL and the H3O arm exchanged
factory_get_arms_exchanged(id) ==
    LET tool == spec(id).tool
    IN  CASE tool = "DGGRID" ->
                (CASE id = "ISEA3HDGGRID" -> Ok(Adapter("Isea3hImpl", id))
                   [] id = "IGEO7" -> Ok(Adapter("Igeo7Impl", id))
                   [] OTHER -> Err("Unsupported"))
          [] tool = "H3O" ->
                (CASE id = "H3" -> Ok(Adapter("DggalImpl", id))
                   [] OTHER -> Err("Unsupported"))
          [] tool = "DGGAL" ->
                (CASE id \in {"ISEA3HDGGAL", "IVEA3H", "ISEA9R", "IVEA9R",
                              "RTEA3H", "RTEA9R"} -> Ok(Adapter("H3Impl", id))
                   [] OTHER -> Err("Unsupported"))
          [] tool = "Native" -> Err("Unsupported")

\* factory::get
factory_get(id) ==
    LET tool == spec(id).tool
    IN  CASE tool = "DGGRID" ->
                (CASE id = "ISEA3HDGGRID" -> Ok(Adapter("Isea3hImpl", id))
                   [] id = "IGEO7" -> Ok(Adapter("Igeo7Impl", id))
                   [] OTHER -> Err("Unsupported"))
          [] tool = "H3O" ->
                (CASE id = "H3" -> Ok(Adapter("H3Impl", id))
                   [] OTHER -> Err("Unsupported"))
          [] tool = "DGGAL" ->
                (CASE id \in {"ISEA3HDGGAL", "IVEA3H", "ISEA9R", "IVEA9R",
                              "RTEA3H", "RTEA9R"} -> Ok(Adapter("DggalImpl", id))
                   [] OTHER -> Err("Unsupported"))
          [] tool = "Native" -> Err("Unsupported")

\* the five capability queries of the port
Queries == {"min_refinement_level", "max_refinement_level",
            "default_refinement_level", "max_relative_depth",
            "default_relative_depth"}

\* Isea3hImpl::min_refinement_level
Isea3h_min_refinement_level == 0

\* Isea3hImpl::default_relative_depth
Isea3h_default_relative_depth == 3

\* the capability queries of Igeo7Impl
Igeo7_min_refinement_level == 0

Igeo7_max_refinement_level == 18

Igeo7_default_refinement_level == 2

Igeo7_max_relative_depth == 3

Igeo7_default_relative_depth == 1

\* DggalImpl::min_refinement_level, default_relative_depth
Dggal_min_refinement_level == 0

Dggal_default_relative_depth == 2

\* one capability query on an adapter; lib is what the library does
CapabilityQuery(adapter, q, lib) ==
    CASE adapter.impl = "Isea3hImpl" ->
            (CASE q = "min_refinement_level" -> Ok(Isea3h_min_refinement_level)
               [] q = "max_refinement_level" -> Ok(Isea3h_max_refinement_level)
               [] q = "default_refinement_level" -> Ok(Isea3h_default_refinement_level)
               [] q = "max_relative_depth" -> Ok(Isea3h_max_relative_depth)
               [] q = "default_relative_depth" -> Ok(Isea3h_default_relative_depth))
      [] adapter.impl = "Igeo7Impl" ->
            (CASE q = "min_refinement_level" -> Ok(Igeo7_min_refinement_level)
               [] q = "max_refinement_level" -> Ok(Igeo7_max_refinement_level)
               [] q = "default_refinement_level" -> Ok(Igeo7_default_refinement_level)
               [] q = "max_relative_depth" -> Ok(Igeo7_max_relative_depth)
               [] q = "default_relative_depth" -> Ok(Igeo7_default_relative_depth))
      [] adapter.impl = "H3Impl" -> Ok(spec("H3")[q])
      [] adapter.impl = "DggalImpl" ->
            (CASE q = "min_refinement_level" -> Ok(Dggal_min_refinement_level)
               [] q = "max_refinement_level" ->
                     LET r == Dggal_max_refinement_level(lib)
                     IN  IF r.ok THEN Ok(r.val) ELSE ErrOf(r)
               [] q = "default_refinement_level" -> Ok(Dggal_default_refinement_level)
               [] q = "max_relative_depth" -> Ok(Dggal_max_relative_depth)
               [] q = "default_relative_depth" -> Ok(Dggal_default_relative_depth))

(***************************************************************************)
(* SpecRegistry: a grid name is parsed, its adapter fetched and queried    *)
(***************************************************************************)
\* the texts a grid identifier is asked for with
UidTextsOf(e) ==
    LET c == CanonicalText(e)
        n == ShortText(e)
    IN  {c, to_ascii_lowercase(c), <<" ">> \o c \o <<" ">>,
         n, to_ascii_lowercase(n), <<" ">> \o n,
         n \o <<"-">> \o DggrsImplementation_display(e.tool),
         n \o <<"_">> \o DggrsImplementation_display(e.tool)}

UidTexts ==
    UNION {UidTextsOf(DGGRS_SPECS[i]) : i \in 1..Len(DGGRS_SPECS)}
    \cup {<<>>, <<"H", "4">>, DggrsImplementation_display("DGGRID"),
          DggrsName_display("H3") \o DggrsImplementation_display("Native")}

\* what the native library does during the run
RegistryLibraries ==
    {l \in Libraries : l.zone_level = 0 /\ l.listed = 1 /\ l.edges = 6}

RInit ==
    /\ rText \in UidTexts
    /\ rLib \in RegistryLibraries
    /\ rUid = NoResult
    /\ rGot = NoResult
    /\ rCaps = <<>>
    /\ rStage = "input"

RIdle ==
    /\ rText = <<>>
    /\ rLib = Library("ok", 0, 0, 0, 0)
    /\ rUid = NoResult
    /\ rGot = NoResult
    /\ rCaps = <<>>
    /\ rStage = "idle"

\* text.parse::<DggrsUid>()
RParse ==
    /\ rStage = "input"
    /\ rUid' = DggrsUid_from_str(rText)
    /\ rStage' = "parsed"
    /\ UNCHANGED <<rText, rLib, rGot, rCaps>>
    /\ UNCHANGED rOthers

\* factory::get(id)
RGet ==
    /\ rStage = "parsed" /\ rUid.ok
    /\ rGot' = factory_get(rUid.val)
    /\ rStage' = "got"
    /\ UNCHANGED <<rText, rLib, rUid, rCaps>>
    /\ UNCHANGED rOthers

\* a capability query on the adapter
RQuery ==
    /\ rStage = "got" /\ rGot.ok
    /\ Len(rCaps) < MaxQueries
    /\ \E q \in Queries :
          rCaps' = Append(rCaps, [q |-> q, result |-> CapabilityQuery(rGot.val, q, rLib)])
    /\ UNCHANGED <<rText, rLib, rUid, rGot, rStage>>
    /\ UNCHANGED rOthers

RNext == RParse \/ RGet \/ RQuery

(***************************************************************************)
(* Igeo7Impl::zones_from_parent (dggrs/src/adapters/dggrid/igeo7.rs)       *)
(***************************************************************************)
\* the largest u8
U8Max == 255

\* str::parse::<u8> of two characters: an optional plus sign, decimal digits
parse_u8_2(t) ==
    IF is_ascii_digit(t[1]) /\ is_ascii_digit(t[2])
    THEN Ok(DigitVal(t[1]) * 10 + DigitVal(t[2]))
    ELSE IF t[1] = "+" /\ is_ascii_digit(t[2]) THEN Ok(DigitVal(t[2]))
    ELSE Err("Invalid resolution prefix in ZoneID")

\* extract_res_from_z3: the first two characters read as a decimal number
extract_res_from_z3(id) ==
    IF Len(id) < 2 THEN Err("ZoneID too short to extract resolution")
    ELSE parse_u8_2(SubSeq(id, 1, 2))

\* extract_res_from_cellid(id, "IGEO7"): the Z3 prefix rule is used for Z7
extract_res_from_cellid_igeo7(id) == extract_res_from_z3(id)

\* a parent id handed over as a String
TextId(text) == [tag |-> "Text", text |-> text]

\* write::metafile, igeo7_metafile and the lines zones_from_parent appends
Igeo7MetaContent(call, clip_cell_res, clip_cell_address) ==
    [kind |-> "meta", dggs_res_spec |-> call.target,
     children |-> call.cfg.children, neighbors |-> call.cfg.neighbors,
     densify |-> call.cfg.densify, op |-> call.op,
     clip_cell_res |-> clip_cell_res, clip_cell_addresses |-> clip_cell_address]

\* Igeo7Impl::zones_from_parent from setup to its return, on a working
\* directory fs, for one i/o failure and one tool outcome
Igeo7_zones_from_parent(code, depth, text, cfg, fs, iofail, out) ==
    LET start == [IdleCall EXCEPT !.pc = "write", !.op = "zones_from_parent",
                                  !.code = code, !.paths = setup(code),
                                  !.depth = depth, !.zid = TextId(text),
                                  !.cfg = cfg, !.target = depth]
        p == start.paths
        res == extract_res_from_cellid_igeo7(text)
        fs1 == FsWrite(fs, p.meta_path, Igeo7MetaContent(start, NoLine, NoLine))
        call == [Logged(start, "write") EXCEPT !.clip = res.val]
        fs2 == FsWrite(fs, p.meta_path,
                       Igeo7MetaContent(call, NumberOf(res.val), SubSeq(text, 3, Len(text))))
        e == execute([call EXCEPT !.pc = "exec"], fs2, out)
        q == Isea3hParse(e.call, e.fs)
    IN  IF depth > U8Max
        THEN [call |-> Return(start, Err("RelativeDepthTooHigh")), fs |-> fs, meta |-> NoMeta]
        ELSE IF "meta" \in iofail
        THEN [call |-> Panic(start), fs |-> fs, meta |-> NoMeta]
        ELSE IF ~res.ok
        THEN [call |-> Panic(Logged(start, "write")), fs |-> fs1, meta |-> fs1[p.meta_path]]
        ELSE IF q.pc = "done"
        THEN [call |-> q, fs |-> e.fs, meta |-> fs2[p.meta_path]]
        ELSE [call |-> Isea3hCleanup(q, e.fs).call, fs |-> Isea3hCleanup(q, e.fs).fs,
              meta |-> fs2[p.meta_path]]

\* Z7 parent ids: 16 hex digits, one too short to carry a prefix
Igeo7ParentTexts ==
    {Hex16(<<a, 65535, 65535, 65535>>) : a \in {0, 390, 448, 1023, 4095, 7167}}
    \cup {<<"5">>}

\* the configs sampled for Igeo7Impl, which takes the densify flag only
ConfigsIgeo7 == {Config(TRUE, TRUE, FALSE, FALSE, FALSE, FALSE, d) : d \in BOOLEAN}

\* the tool outcomes sampled for Igeo7Impl
ToolOutcomesIgeo7 == {o \in ToolOutcomes : o.kind = "wrote" => o.chd.keys = {}}

PIgeo7_zones_from_parent ==
    /\ pCall.stage = "idle"
    /\ \E depth \in PortDepths(Igeo7_max_relative_depth) :
       \E text \in Igeo7ParentTexts : \E cfg \in ConfigsIgeo7 :
       \E iofail \in {{}, {"meta"}} : \E out \in ToolOutcomesIgeo7 :
          LET run == Igeo7_zones_from_parent(TokenSamples[1], depth, text, cfg,
                                             EmptyFs, iofail, out)
          IN  /\ pCall' = [PortCall("IGEO7", "zones_from_parent", 0, FALSE, depth,
                                    TextId(text), cfg) EXCEPT
                              !.result = run.call.result,
                              !.fx = (IF depth > U8Max THEN {} ELSE {"tempfile"})
                                     \cup (IF run.call.execs > 0 THEN {"process"} ELSE {}),
                              !.max_level = Igeo7_max_refinement_level,
                              !.max_depth = Igeo7_max_relative_depth,
                              !.parent_res = run.call.clip,
                              !.backend_res = run.call.target,
                              !.listed = IF run.call.execs > 0 THEN ListedBy(out) ELSE <<>>,
                              !.execs = run.call.execs,
                              !.tool_failed = run.call.tool_failed,
                              !.iofail = iofail,
                              !.meta = run.meta]
              /\ pFs' = run.fs
    /\ UNCHANGED pOthers

PNext ==
    \/ PIsea3h_zones_from_bbox
    \/ PIsea3h_zone_from_point
    \/ PIsea3h_zones_from_parent
    \/ PIsea3h_zone_from_id
    \/ PH3_zones_from_bbox
    \/ PH3_zone_from_point
    \/ PH3_zones_from_parent
    \/ PH3_zone_from_id
    \/ PDggal_zones_from_bbox
    \/ PDggal_zone_from_point
    \/ PDggal_zones_from_parent
    \/ PDggal_zone_from_id
    \/ PIgeo7_zones_from_parent

(***************************************************************************)
(* The line parsers of the tool's output files (dggrid/common.rs, read)    *)
(***************************************************************************)
\* tokens of a line: two zone ids, a number that is no hex text, the END
\* marker, and a token that is neither a hex text nor a number
IdTokens == {"a1", "b2"}

NumTokens == {"1.5"}

\* ZoneId::new_hex on a token
token_new_hex(t) == IF t \in IdTokens THEN Ok(t) ELSE Err("InvalidHex")

\* str::parse::<f64> on a token
token_parse_f64(t) == IF t \in NumTokens THEN Ok(t) ELSE Err("ParseFloat")

NoCur == [some |-> FALSE]

\* one line of parse_aigen_to_zones_map: st holds cur, out and the error
\* that ended the parse, if any
AigenLine(st, parts) ==
    IF st.err # "none" THEN st
    ELSE IF Len(parts) = 3
    THEN IF ~token_new_hex(parts[1]).ok THEN [st EXCEPT !.err = "InvalidHex"]
         ELSE IF ~token_parse_f64(parts[2]).ok \/ ~token_parse_f64(parts[3]).ok
         THEN [st EXCEPT !.err = "ParseFloat"]
         ELSE [st EXCEPT !.cur = [some |-> TRUE, id |-> parts[1], nv |-> 0]]
    ELSE IF Len(parts) = 2
    THEN IF ~st.cur.some THEN st
         ELSE IF ~token_parse_f64(parts[1]).ok \/ ~token_parse_f64(parts[2]).ok
         THEN [st EXCEPT !.err = "ParseFloat"]
         ELSE [st EXCEPT !.cur.nv = @ + 1]
    ELSE IF parts = <<"END">>
    THEN IF ~st.cur.some THEN st
         ELSE [st EXCEPT
                 !.cur = NoCur,
                 !.out = [id \in DOMAIN st.out \cup {st.cur.id} |->
                            IF id = st.cur.id
                            THEN [id |-> id, center |-> "Some",
                                  region |-> IF st.cur.nv >= 2 THEN "Some" ELSE "None"]
                            ELSE st.out[id]]]
    ELSE st

RECURSIVE AigenLines(_, _)
AigenLines(st, lines) ==
    IF lines = <<>> THEN st ELSE AigenLines(AigenLine(st, Head(lines)), Tail(lines))

\* read::parse_aigen_to_zones_map on a file given as its lines, each line as
\* its whitespace-separated tokens
read_parse_aigen_to_zones_map(lines) ==
    LET st == AigenLines([cur |-> NoCur, out |-> <<>>, err |-> "none"], lines)
    IN  IF st.err # "none" THEN Err(st.err) ELSE Ok(st.out)

\* one line of parse_id_list
IdListLine(st, parts) ==
    IF st.err # "none" \/ parts = <<>> THEN st
    ELSE IF \E i \in 1..Len(parts) : ~token_new_hex(parts[i]).ok
    THEN [st EXCEPT !.err = "InvalidHex"]
    ELSE IF parts[1] \in DOMAIN st.map
    THEN [st EXCEPT !.err = "Malformed",
                    !.map = [k \in DOMAIN st.map |->
                               IF k = parts[1] THEN Tail(parts) ELSE st.map[k]]]
    ELSE [st EXCEPT !.map = [k \in DOMAIN st.map \cup {parts[1]} |->
                               IF k = parts[1] THEN Tail(parts) ELSE st.map[k]]]

RECURSIVE IdListLines(_, _)
IdListLines(st, lines) ==
    IF lines = <<>> THEN st ELSE IdListLines(IdListLine(st, Head(lines)), Tail(lines))

\* read::parse_id_list on a file given as its lines
read_parse_id_list(lines) ==
    LET st == IdListLines([map |-> <<>>, err |-> "none"], lines)
    IN  IF st.err # "none" THEN Err(st.err) ELSE Ok(st.map)

\* the lines of a polygon-output file
AigenLineSamples ==
    {<<>>, <<"a1", "1.5", "1.5">>, <<"b2", "1.5", "1.5">>, <<"zz", "1.5", "1.5">>,
     <<"a1", "zz", "1.5">>, <<"1.5", "1.5">>, <<"zz", "1.5">>, <<"END">>, <<"a1">>,
     <<"a1", "1.5", "1.5", "1.5">>}

\* the lines of a children or neighbor file
IdListLineSamples ==
    {<<>>, <<"a1">>, <<"a1", "b2">>, <<"b2", "a1">>, <<"b2", "a1", "a1">>,
     <<"zz", "a1">>, <<"a1", "zz">>}

FilesOf(lines, n) == UNION {[1..k -> lines] : k \in 0..n}

LInit ==
    /\ lStage = "input"
    /\ \/ lKind = "aigen" /\ lLines \in FilesOf(AigenLineSamples, MaxAigenLines)
       \/ lKind = "id_list" /\ lLines \in FilesOf(IdListLineSamples, MaxIdListLines)
    /\ lOut = NoResult

LIdle ==
    /\ lStage = "off"
    /\ lKind = "none"
    /\ lLines = <<>>
    /\ lOut = NoResult

LParseAigen ==
    /\ lStage = "input" /\ lKind = "aigen"
    /\ lOut' = read_parse_aigen_to_zones_map(lLines)
    /\ lStage' = "parsed"
    /\ UNCHANGED <<lKind, lLines, lOthers>>

LParseIdList ==
    /\ lStage = "input" /\ lKind = "id_list"
    /\ lOut' = read_parse_id_list(lLines)
    /\ lStage' = "parsed"
    /\ UNCHANGED <<lKind, lLines, lOthers>>

LNext ==
    \/ LParseAigen
    \/ LParseIdList

(***************************************************************************)
(* A zone id handed from one operation to the next (example/basic.rs)      *)
(***************************************************************************)
\* DGGRS::getZoneTextID: the text id of a zone of the library
getZoneTextID(zone) == <<"A", HexChars[(zone[4] % 16) + 1], "-", "0", "-", "A">>

\* to_str_zone_id (api/src/adapters/dggal/common.rs)
to_str_zone_id(zone) ==
    LET id == new_str(getZoneTextID(zone))
    IN  IF id.ok THEN id ELSE Err("InvalidZoneIdFormat")

\* to_u64_zone_id
to_u64_zone_id(zone) == Ok(IntId(zone))

\* to_zones of the DGGAL adapter as api/src/adapters/dggal/common.rs has it:
\* the zone id is the text id of the zone
Dggal_to_zones_api(lib, zones, conf) ==
    LET region == Opt(conf.neighbors \/ conf.area_sqm)
        zone(z) ==
            Zone(to_str_zone_id(z).val, region, Opt(conf.center),
                 Opt(conf.vertex_count), Opt(conf.children), Opt(conf.neighbors),
                 FromRegion(conf.area_sqm, region))
    IN  IF \E i \in 1..Len(zones) : ~to_str_zone_id(zones[i]).ok
        THEN Err("InvalidZoneIdFormat")
        ELSE IF conf.vertex_count /\ zones # <<>> /\ lib.edges < 0
        THEN Err("EdgeCountConversion")
        ELSE Ok([i \in 1..Len(zones) |-> zone(zones[i])])

\* the ids a Zones value of the DGGAL adapter carries: the id of every zone
\* and, when asked for, the ids of its children and neighbors; variant names
\* the to_zones at work ("dggrs" or "api")
DggalIdOf(variant, zone) ==
    IF variant = "api" THEN to_str_zone_id(zone).val ELSE to_u64_zone_id(zone).val

DggalReturnedIds(variant, zones, conf) ==
    {DggalIdOf(variant, zones[i]) : i \in 1..Len(zones)}
    \cup (IF conf.children /\ zones # <<>>
          THEN {DggalIdOf(variant, <<0, 0, 0, 8 + k>>) : k \in 1..MaxListed} ELSE {})
    \cup (IF conf.neighbors /\ zones # <<>>
          THEN {DggalIdOf(variant, <<0, 0, 0, 4 + k>>) : k \in 1..MaxListed} ELSE {})

\* the ids a Zones value of the H3 adapter carries
H3ReturnedIds(cells, conf) ==
    {new_hex(H3CellText(cells[i])).val : i \in 1..Len(cells)}
    \cup (IF conf.children
          THEN {new_hex(H3CellText(H3Cell(cells[i].res + 1, k))).val :
                   i \in 1..Len(cells), k \in 1..MaxListed} ELSE {})
    \cup (IF conf.neighbors
          THEN {new_hex(H3CellText(H3Cell(cells[i].res, 1 + k))).val :
                   i \in 1..Len(cells), k \in 1..MaxListed} ELSE {})

\* the hex text the k-th id of the tool's output files stands for
AigenIdText(k) == Z3Hex(k).text

\* the ids a Zones value of the DGGRID adapter carries: ZoneId::new_hex of
\* the id tokens of the polygon, children and neighbor files
Isea3hReturnedIds(out, conf) ==
    {new_hex(AigenIdText(k)).val : k \in IdsOf(out.gen)}
    \cup (IF conf.children \/ conf.neighbors
          THEN {new_hex(AigenIdText(10 + k)).val : k \in out.chd.keys} ELSE {})

\* the configs of the first call: with and without children and neighbors
ChainConfigs ==
    {Config(TRUE, TRUE, FALSE, ch, ch, FALSE, TRUE) : ch \in BOOLEAN}

ChainLibraries == {lib \in Libraries : lib.edges = 6 /\ lib.listed = 1}

NoIds == {}

\* geo::Point: x and y in degrees
Point(x, y) == [x |-> x, y |-> y]

NoPoint == [kind |-> "none"]

\* the points of the first call; x beyond the range of a latitude included
PointSamples == {Point(x, y) : x \in {-120, 10}, y \in {-45, 10, 53}}

\* the coordinate a backend is handed: its latitude and its longitude
Handed(lat, lon) == [lat |-> lat, lon |-> lon]

\* LatLng::new(point.x(), point.y()) of H3Impl::zone_from_point; the
\* parameters of h3o's LatLng::new are (lat, lng)
H3_LatLng(point) == Handed(point.x, point.y)

\* to_geo_point (dggal/common.rs); degrees kept, the conversion to radians
\* is the same for both fields
to_geo_point(point) == Handed(point.y, point.x)

\* the line of the point input file of Isea3hImpl::zone_from_point,
\* "{} {}" of point.y() and point.x(): the "lat lon" line
Isea3hInputLine(point) == Handed(point.y, point.x)

CInit ==
    /\ cStage = "start"
    /\ cAdapter = "none"
    /\ cFirst = NoCall
    /\ cIds = NoIds
    /\ cLib = Library("ok", 16, 0, 1, 6)
    /\ cSecond = NoCall
    /\ cPoint = NoPoint
    /\ cHanded = NoPoint

CIdle ==
    /\ cStage = "off"
    /\ cAdapter = "none"
    /\ cFirst = NoCall
    /\ cIds = NoIds
    /\ cLib = Library("ok", 16, 0, 1, 6)
    /\ cSecond = NoCall
    /\ cPoint = NoPoint
    /\ cHanded = NoPoint

\* H3Impl::zone_from_point, and the ids its result carries
CPointH3 ==
    /\ cStage = "start"
    /\ \E level \in {0, 2, H3MaxResolution} : \E cfg \in ChainConfigs :
          LET first == H3_zone_from_point(level, cfg)
          IN  /\ cFirst' = first
              /\ cIds' = IF first.result.ok
                         THEN H3ReturnedIds(<<H3Cell(first.backend_res, 1)>>, cfg)
                         ELSE NoIds
    /\ cAdapter' = "H3"
    /\ \E point \in PointSamples :
          /\ cPoint' = point
          /\ cHanded' = H3_LatLng(point)
    /\ cStage' = "pointed"
    /\ UNCHANGED <<cLib, cSecond, cOthers>>

\* DggalImpl::zone_from_point with the to_zones of the dggrs crate
CPointDggal ==
    /\ cStage = "start"
    /\ \E level \in {0, 2} : \E cfg \in ChainConfigs : \E lib \in ChainLibraries :
          LET first == Dggal_zone_from_point(level, cfg, lib)
          IN  /\ cFirst' = first
              /\ cLib' = lib
              /\ cIds' = IF first.result.ok
                         THEN DggalReturnedIds("dggrs", DggalListed(1), cfg)
                         ELSE NoIds
    /\ cAdapter' = "DGGAL"
    /\ \E point \in PointSamples :
          /\ cPoint' = point
          /\ cHanded' = to_geo_point(point)
    /\ cStage' = "pointed"
    /\ UNCHANGED <<cSecond, cOthers>>

\* DggalImpl::zone_from_point with the to_zones of the api crate
CPointDggalApi ==
    /\ cStage = "start"
    /\ \E level \in {0, 2} : \E cfg \in ChainConfigs : \E lib \in ChainLibraries :
          LET call == Dggal_zone_from_point(level, cfg, lib)
              first == IF call.result.ok
                       THEN [call EXCEPT
                               !.result = Dggal_to_zones_api(lib, DggalListed(1), cfg)]
                       ELSE call
          IN  /\ cFirst' = first
              /\ cLib' = lib
              /\ cIds' = IF first.result.ok
                         THEN DggalReturnedIds("api", DggalListed(1), cfg)
                         ELSE NoIds
    /\ cAdapter' = "DGGAL_API"
    /\ \E point \in PointSamples :
          /\ cPoint' = point
          /\ cHanded' = to_geo_point(point)
    /\ cStage' = "pointed"
    /\ UNCHANGED <<cSecond, cOthers>>

\* Isea3hImpl::zone_from_point on an empty working directory
CPointIsea3h ==
    /\ cStage = "start"
    /\ \E level \in {0, Isea3h_default_refinement_level} : \E cfg \in ChainConfigs :
       \E out \in ToolOutcomes :
          LET start == Isea3hStart("zone_from_point", TokenSamples[1], level, FALSE,
                                   0, NoZone, cfg)
              run == Isea3hRun(start, EmptyFs, {}, out)
              first == Isea3hDone("zone_from_point", level, FALSE, 0, NoZone, cfg,
                                  start, run, {}, out)
          IN  /\ out.kind = "wrote"
              /\ cFirst' = first
              /\ cIds' = IF first.result.ok THEN Isea3hReturnedIds(out, cfg) ELSE NoIds
    /\ cAdapter' = "DGGRID"
    /\ \E point \in PointSamples :
          /\ cPoint' = point
          /\ cHanded' = Isea3hInputLine(point)
    /\ cStage' = "pointed"
    /\ UNCHANGED <<cLib, cSecond, cOthers>>

\* the second call of the adapter on an id of the first
ChainSecond(op, zid) ==
    LET cfg == DefaultConfig
    IN  CASE cAdapter = "H3" ->
               IF op = "zone_from_id" THEN H3_zone_from_id(zid, cfg)
               ELSE H3_zones_from_parent(1, zid, cfg, 1)
          [] cAdapter \in {"DGGAL", "DGGAL_API"} ->
               IF op = "zone_from_id" THEN Dggal_zone_from_id(zid, cfg, cLib)
               ELSE Dggal_zones_from_parent(1, zid, cfg, cLib)
          [] OTHER ->
               LET start == Isea3hStart(op, TokenSamples[1], 0, FALSE, 1, zid, cfg)
                   out == [kind |-> "fail"]
                   run == Isea3hRun(start, EmptyFs, {}, out)
               IN  Isea3hDone(op, 0, FALSE, 1, zid, cfg, start, run, {}, out)

\* zone_from_id on an id the first call returned
CZoneFromId ==
    /\ cStage = "pointed"
    /\ \E zid \in cIds : cSecond' = ChainSecond("zone_from_id", zid)
    /\ cStage' = "done"
    /\ UNCHANGED <<cAdapter, cFirst, cIds, cLib, cPoint, cHanded, cOthers>>

\* zones_from_parent on an id the first call returned
CZonesFromParent ==
    /\ cStage = "pointed"
    /\ \E zid \in cIds : cSecond' = ChainSecond("zones_from_parent", zid)
    /\ cStage' = "done"
    /\ UNCHANGED <<cAdapter, cFirst, cIds, cLib, cPoint, cHanded, cOthers>>

CNext ==
    \/ CPointH3
    \/ CPointDggal
    \/ CPointDggalApi
    \/ CPointIsea3h
    \/ CZoneFromId
    \/ CZonesFromParent

(***************************************************************************)
(* The flattened export (gp-bindings/js/src/models/common.rs)              *)
(***************************************************************************)
\* Option: Some(v) and None
SomeOf(v) == [some |-> TRUE, val |-> v]

Absent == [some |-> FALSE]

\* struct Zone as the export reads it: the id as its Display text, the
\* region as the points of its exterior ring, children and neighbors as the
\* Display texts of their ids
ExportZone(id, center, vertex_count, region, children, neighbors) ==
    [id |-> id, center |-> center, vertex_count |-> vertex_count,
     region |-> region, children |-> children, neighbors |-> neighbors]

\* struct JsZones, all arrays empty
EmptyJsZones ==
    [id_offsets |-> <<>>, utf8_ids |-> <<>>,
     center_x |-> <<>>, center_y |-> <<>>, vertex_count |-> <<>>,
     region_offsets |-> <<>>, region_coords |-> <<>>,
     children_offsets |-> <<>>, children_id_offsets |-> <<>>,
     children_utf8_ids |-> <<>>,
     neighbors_offsets |-> <<>>, neighbors_id_offsets |-> <<>>,
     neighbors_utf8_ids |-> <<>>]

\* the loop over the ids of a children or neighbors list: the offset of each
\* id is pushed, then its bytes
RECURSIVE PushIds(_, _, _)
PushIds(offsets, bytes, ids) ==
    IF ids = <<>> THEN [offsets |-> offsets, bytes |-> bytes]
    ELSE PushIds(Append(offsets, Len(bytes)), bytes \o Head(ids), Tail(ids))

\* the points of an exterior ring flattened to x, y, x, y, ...
RECURSIVE FlattenPoints(_)
FlattenPoints(points) ==
    IF points = <<>> THEN <<>>
    ELSE <<Head(points)[1], Head(points)[2]>> \o FlattenPoints(Tail(points))

\* the body of the loop of ZonesWrapper::to_export
ExportZoneInto(acc, zone) ==
    LET ch == IF zone.children.some
              THEN PushIds(acc.children_id_offsets, acc.children_utf8_ids,
                           zone.children.val)
              ELSE [offsets |-> acc.children_id_offsets,
                    bytes |-> acc.children_utf8_ids]
        nb == IF zone.neighbors.some
              THEN PushIds(acc.neighbors_id_offsets, acc.neighbors_utf8_ids,
                           zone.neighbors.val)
              ELSE [offsets |-> acc.neighbors_id_offsets,
                    bytes |-> acc.neighbors_utf8_ids]
    IN  [id_offsets |-> Append(acc.id_offsets, Len(acc.utf8_ids)),
         utf8_ids |-> acc.utf8_ids \o zone.id,
         center_x |-> IF zone.center.some
                      THEN Append(acc.center_x, zone.center.val[1])
                      ELSE acc.center_x,
         center_y |-> IF zone.center.some
                      THEN Append(acc.center_y, zone.center.val[2])
                      ELSE acc.center_y,
         vertex_count |-> IF zone.vertex_count.some
                          THEN Append(acc.vertex_count, zone.vertex_count.val)
                          ELSE acc.vertex_count,
         region_offsets |-> Append(acc.region_offsets, Len(acc.region_coords)),
         region_coords |-> IF zone.region.some
                           THEN acc.region_coords \o FlattenPoints(zone.region.val)
                           ELSE acc.region_coords,
         children_offsets |-> Append(acc.children_offsets,
                                     Len(acc.children_id_offsets)),
         children_id_offsets |-> ch.offsets,
         children_utf8_ids |-> ch.bytes,
         neighbors_offsets |-> Append(acc.neighbors_offsets,
                                      Len(acc.neighbors_id_offsets)),
         neighbors_id_offsets |-> nb.offsets,
         neighbors_utf8_ids |-> nb.bytes]

\* ZonesWrapper::to_export
RECURSIVE to_export_from(_, _)
to_export_from(zones, acc) ==
    IF zones = <<>> THEN acc
    ELSE to_export_from(Tail(zones), ExportZoneInto(acc, Head(zones)))

to_export(zones) == to_export_from(zones, EmptyJsZones)

\* the end of the i-th slice of an offset table (i from 1): the next offset,
\* or the length of the buffer for the last one
SliceEnd(offsets, i, total) ==
    IF i + 1 <= Len(offsets) THEN offsets[i + 1] ELSE total

\* &buf[start..end]: out of range when start > end or end > len
SliceInRange(buf, start, end) == start <= end /\ end <= Len(buf)

Slice(buf, start, end) == SubSeq(buf, start + 1, end)

\* the ids of the i-th zone in a children or neighbors table
IdsAt(offsets, id_offsets, bytes, i) ==
    LET first == offsets[i]
        last == SliceEnd(offsets, i, Len(id_offsets))
    IN  [k \in 1..(IF last > first THEN last - first ELSE 0) |->
            Slice(bytes, id_offsets[first + k],
                  SliceEnd(id_offsets, first + k, Len(bytes)))]

\* the coordinate pairs of the i-th zone
PairsAt(js, i) ==
    LET first == js.region_offsets[i]
        last == SliceEnd(js.region_offsets, i, Len(js.region_coords))
    IN  [k \in 1..(IF last > first THEN (last - first) \div 2 ELSE 0) |->
            <<js.region_coords[first + 2 * k - 1], js.region_coords[first + 2 * k]>>]

\* an index of to_import outside its array for zone i
ImportOutOfBounds(js, i) ==
    \/ i > Len(js.region_offsets)
    \/ i > Len(js.children_offsets)
    \/ i > Len(js.neighbors_offsets)
    \/ i > Len(js.center_x)
    \/ i > Len(js.center_y)
    \/ i > Len(js.vertex_count)
    \/ ~SliceInRange(js.utf8_ids, js.id_offsets[i],
                     SliceEnd(js.id_offsets, i, Len(js.utf8_ids)))

\* JsZones::to_import
to_import(js) ==
    LET zone_count == Len(js.id_offsets)
        listOf(ids) == IF ids = <<>> THEN Absent ELSE SomeOf(ids)
        zone(i) ==
            ExportZone(
                Slice(js.utf8_ids, js.id_offsets[i],
                      SliceEnd(js.id_offsets, i, Len(js.utf8_ids))),
                SomeOf(<<js.center_x[i], js.center_y[i]>>),
                SomeOf(js.vertex_count[i]),
                SomeOf(PairsAt(js, i)),
                listOf(IdsAt(js.children_offsets, js.children_id_offsets,
                             js.children_utf8_ids, i)),
                listOf(IdsAt(js.neighbors_offsets, js.neighbors_id_offsets,
                             js.neighbors_utf8_ids, i)))
    IN  IF \E i \in 1..zone_count : ImportOutOfBounds(js, i)
        THEN Err("panic")
        ELSE Ok([i \in 1..zone_count |-> zone(i)])

\* the zones handed to the export: every optional field present or absent
ExportZoneSamples ==
    {ExportZone(id, center, vc, region, related, related) :
        id \in {<<"a">>, <<"b", "c">>},
        center \in {Absent, SomeOf(<<10, 53>>)},
        vc \in {Absent, SomeOf(6)},
        region \in {Absent, SomeOf(<<<<1, 2>>, <<3, 4>>, <<1, 2>>>>)},
        related \in {Absent, SomeOf(<<<<"d">>, <<"e", "f">>>>)}}

ExportZonesOf(n) == UNION {[1..k -> ExportZoneSamples] : k \in 0..n}

NoJsZones == [kind |-> "none"]

EInit ==
    /\ eZones \in ExportZonesOf(MaxExportZones)
    /\ eOut = NoJsZones
    /\ eBack = NoResult
    /\ eStage = "input"

EIdle ==
    /\ eZones = <<>>
    /\ eOut = NoJsZones
    /\ eBack = NoResult
    /\ eStage = "off"

\* ZonesWrapper { inner }.to_export()
EExport ==
    /\ eStage = "input"
    /\ eOut' = to_export(eZones)
    /\ eStage' = "exported"
    /\ UNCHANGED <<eZones, eBack, eOthers>>

\* JsZones::to_import on the exported value
EImport ==
    /\ eStage = "exported"
    /\ eBack' = to_import(eOut)
    /\ eStage' = "imported"
    /\ UNCHANGED <<eZones, eOut, eOthers>>

ENext == EExport \/ EImport

(***************************************************************************)
(* The specifications                                                      *)
(***************************************************************************)
InitZoneId == ZInit /\ GIdle /\ DIdle /\ PIdle /\ BIdle /\ RIdle /\ NIdle /\ LIdle /\ CIdle /\ EIdle

SpecZoneId == InitZoneId /\ [][ZNext]_vars

InitDggal == GInit /\ ZIdle /\ DIdle /\ PIdle /\ BIdle /\ RIdle /\ NIdle /\ LIdle /\ CIdle /\ EIdle

SpecDggal == InitDggal /\ [][GNext]_vars

InitDggrid == DInit /\ ZIdle /\ GIdle /\ PIdle /\ BIdle /\ RIdle /\ NIdle /\ LIdle /\ CIdle /\ EIdle

SpecDggrid == InitDggrid /\ [][DNext]_vars

InitPort == PInit /\ ZIdle /\ GIdle /\ DIdle /\ BIdle /\ RIdle /\ NIdle /\ LIdle /\ CIdle /\ EIdle

SpecPort == InitPort /\ [][PNext]_vars

InitDecode == BInit /\ ZIdle /\ GIdle /\ DIdle /\ PIdle /\ RIdle /\ NIdle /\ LIdle /\ CIdle /\ EIdle

SpecDecode == InitDecode /\ [][BNext]_vars

InitRegistry == RInit /\ ZIdle /\ GIdle /\ DIdle /\ PIdle /\ BIdle /\ NIdle /\ LIdle /\ CIdle /\ EIdle

SpecRegistry == InitRegistry /\ [][RNext]_vars

InitLevel == NInit /\ ZIdle /\ GIdle /\ DIdle /\ PIdle /\ BIdle /\ RIdle /\ LIdle /\ CIdle /\ EIdle

SpecLevel == InitLevel /\ [][NNext]_vars

InitParse == LInit /\ ZIdle /\ GIdle /\ DIdle /\ PIdle /\ BIdle /\ RIdle /\ NIdle /\ CIdle /\ EIdle

SpecParse == InitParse /\ [][LNext]_vars

InitChain == CInit /\ ZIdle /\ GIdle /\ DIdle /\ PIdle /\ BIdle /\ RIdle /\ NIdle /\ LIdle /\ EIdle

SpecChain == InitChain /\ [][CNext]_vars

InitExport == EInit /\ ZIdle /\ GIdle /\ DIdle /\ PIdle /\ BIdle /\ RIdle /\ NIdle /\ LIdle /\ CIdle

SpecExport == InitExport /\ [][ENext]_vars

(***************************************************************************)
(* Claims about the zone-identifier round trips                            *)
(***************************************************************************)
\* a valid hex string: at most 16 characters, all hexadecimal digits
ValidHexText(h) == Len(h) <= HexMaxLen /\ all_ascii_hexdigit(h)

\* a decimal numeral in canonical form: no leading zero except "0" itself
CanonicalDecimal(h) ==
    /\ h # <<>>
    /\ all_ascii_digit(h)
    /\ (Len(h) = 1 \/ Head(h) # "0")

\* a non-empty valid hex string that has a hex letter or is a canonical decimal
RoundTripHexText(h) ==
    /\ h # <<>>
    /\ ValidHexText(h)
    /\ (CanonicalDecimal(h) \/ \E i \in 1..Len(h) : h[i] \in HexLetters)

\* C9 (as stated): for every valid hex string h (at most 16 hex digits),
\* parsing h as a ZoneId and rendering the result gives back exactly h.
C9_HexRoundTrip ==
    (zcase = "text" /\ ValidHexText(zText) /\ zStage = "done") => zShown = zText

\* C9 (amended): for every non-empty valid hex string h that contains a hex
\* letter, or that is a decimal numeral without a leading zero, parsing h
\* succeeds and rendering the parsed id gives back exactly h.
C9_HexRoundTripAmended ==
    (zcase = "text" /\ RoundTripHexText(zText)) =>
        /\ zStage = "parsed" => zParsed.ok
        /\ zStage = "done" => zShown = zText

\* a 16-character id with a hex letter was parsed as HexId and rendered
C9_Witness ==
    /\ zcase = "text" /\ zStage = "done"
    /\ RoundTripHexText(zText) /\ Len(zText) = HexMaxLen
    /\ zParsed.val.tag = "HexId"
    /\ zShown = zText

\* C10: for every unsigned 64-bit n, parsing the Display text of
\* ZoneId::IntId(n) yields ZoneId::IntId(n) again (same variant, same value).
C10_IntRoundTrip ==
    (zcase = "int" /\ zStage = "done") => zReparsed = Ok(IntId(zInt))

\* the largest u64 was rendered to its 20 digits and parsed back
C10_Witness ==
    /\ zcase = "int" /\ zStage = "done"
    /\ zInt = U64Max /\ Len(zShown) = 20
    /\ zReparsed.ok

(***************************************************************************)
(* Claims about the classification of zone-identifier texts                *)
(***************************************************************************)
\* the numeral of 2^64 - 1
U64MaxText == <<"1", "8", "4", "4", "6", "7", "4", "4", "0", "7",
                "3", "7", "0", "9", "5", "5", "1", "6", "1", "5">>

\* a <= b for decimal numerals of the same length
DecLeq(a, b) ==
    \/ a = b
    \/ \E i \in 1..Len(a) :
          /\ DigitVal(a[i]) < DigitVal(b[i])
          /\ \A j \in 1..(i - 1) : a[j] = b[j]

\* the value of a decimal numeral is below 2^64
FitsU64(s) ==
    LET t == StripLeadingZeros(s)
    IN  Len(t) < Len(U64MaxText) \/ (Len(t) = Len(U64MaxText) /\ DecLeq(t, U64MaxText))

\* result r is the classification of text s as the claim words it
ClassifiedAsStated(s, r) ==
    IF s # <<>> /\ all_ascii_digit(s) THEN r.ok /\ r.val.tag = "IntId"
    ELSE IF s # <<>> /\ all_ascii_hexdigit(s) /\ Len(s) <= HexMaxLen THEN r = Ok(HexId(s))
    ELSE IF Len(s) >= 1 /\ Len(s) <= StrMaxLen THEN r = Ok(StrId(s))
    ELSE ~r.ok

\* result r is the classification of the trimmed text, a decimal numeral
\* counting as an integer only when its value fits 64 bits
ClassifiedAmended(s, r) ==
    LET t == Trim(s)
    IN  IF t # <<>> /\ all_ascii_digit(t) /\ FitsU64(t)
        THEN /\ r.ok /\ r.val.tag = "IntId"
             /\ FmtU64(r.val.int) = StripLeadingZeros(t)
        ELSE IF t # <<>> /\ all_ascii_hexdigit(t) /\ Len(t) <= HexMaxLen
        THEN r = Ok(HexId(t))
        ELSE IF Len(t) >= 1 /\ Len(t) <= StrMaxLen THEN r = Ok(StrId(t))
        ELSE ~r.ok

DigitFromBit59(v, i) ==
    LET shift == 58 - 2 * i
    IN  (v[4 - (shift \div 16)] \div (2 ^ (shift % 16))) % 4

\* the position of the first digit 3 among the 30 digits, or 30
FirstPaddingIndex(v) ==
    IF \E i \in 0..29 : DigitFromBit59(v, i) = 3
    THEN CHOOSE i \in 0..29 :
            /\ DigitFromBit59(v, i) = 3
            /\ \A j \in 0..(i - 1) : DigitFromBit59(v, j) # 3
    ELSE 30

\* the value whose digits are 0,1,2,0,1,2,0,1,2 and then padding
Z3Example == <<390, 7167, 65535, 65535>>

\* C12: for every 64-bit zone id, get_refinement_level_from_z3_zone_id
\* returns the zero-based index of the first 2-bit digit equal to 3 among the
\* 30 digits read from bit 59 downward, or 30 when there is none; the digits
\* 0,1,2,0,1,2,0,1,2,3 decode to level 9.
C12_Z3Decoding ==
    (bStage # "input" /\ bId.tag = "HexId") =>
        /\ bZ3 = Ok(FirstPaddingIndex(bVal))
        /\ bVal = Z3Example => bZ3 = Ok(9)

\* the example id was decoded to level 9
C12_Witness ==
    /\ bStage = "z3" /\ bId = HexId(Hex16(Z3Example))
    /\ bZ3 = Ok(9)

\* the top 4 bits of the value
BaseCellOf(v) == v[1] \div 4096

\* the text holds a character that is no hex digit
HasNonHexChar(t) == \E i \in 1..Len(t) : ~is_ascii_hexdigit(t[i])

\* C13: both decoders reject malformed identifiers: an id whose top 4 bits
\* encode a base cell greater than 11 and an id that is not a hex identifier
\* are errors, for the Z3 and for the Z7 decoder; none yields a resolution.
C13_RejectsMalformed ==
    /\ (bStage # "input" /\ (bId.tag # "HexId" \/ BaseCellOf(bVal) > 11))
          => ~bZ3.ok
    /\ (bStage = "z7" /\ \/ bId.tag = "HexId" /\ BaseCellOf(bVal) > 11
                         \/ bId.tag = "StrId" /\ HasNonHexChar(StripHexPrefix(bId.text)))
          => ~bZ7.ok

(***************************************************************************)
(* Claims about the registry, the factory and identifier parsing           *)
(***************************************************************************)
\* the bounds of one registry entry are ordered
OrderedBounds(e) ==
    /\ e.min_refinement_level <= e.default_refinement_level
    /\ e.default_refinement_level <= e.max_refinement_level
    /\ 0 <= e.default_relative_depth
    /\ e.default_relative_depth <= e.max_relative_depth

\* C14: every entry of DGGRS_SPECS satisfies min_refinement_level <=
\* default_refinement_level <= max_refinement_level and
\* 0 <= default_relative_depth <= max_relative_depth.
C14_RegistryBounds ==
    /\ \A i \in 1..Len(DGGRS_SPECS) : OrderedBounds(DGGRS_SPECS[i])
    /\ (rStage \in {"parsed", "got"} /\ rUid.ok) => OrderedBounds(spec(rUid.val))

\* the last entry of the table was reached through its identifier
C14_Witness ==
    /\ rStage = "parsed" /\ rUid = Ok("RTEA9R")
    /\ spec(rUid.val) = DGGRS_SPECS[Len(DGGRS_SPECS)]
    /\ OrderedBounds(spec(rUid.val))

\* C15: for every adapter obtained from the factory for grid id g, the five
\* capability queries return the values of g's registry entry (for the
\* native-library adapter max_refinement_level may instead be the library's
\* live value), and they return the same on every call.
C15_CapabilitiesFromRegistry ==
    (rStage = "got" /\ rGot.ok) =>
        /\ \A k \in 1..Len(rCaps) :
              LET c == rCaps[k]
                  live == rGot.val.impl = "DggalImpl" /\ c.q = "max_refinement_level"
              IN  IF live
                  THEN c.result.ok =>
                          c.result.val \in {rLib.max_depth, spec(rGot.val.id)[c.q]}
                  ELSE c.result = Ok(spec(rGot.val.id)[c.q])
        /\ \A k1 \in 1..Len(rCaps) : \A k2 \in 1..Len(rCaps) :
              rCaps[k1].q = rCaps[k2].q => rCaps[k1].result = rCaps[k2].result

\* the identifier/tool pairings that have an adapter
SupportedPairings ==
    {<<"DGGRID", "ISEA3HDGGRID">>, <<"DGGRID", "IGEO7">>, <<"H3O", "H3">>}
    \cup {<<"DGGAL", id>> : id \in {"ISEA3HDGGAL", "IVEA3H", "ISEA9R", "IVEA9R",
                                    "RTEA3H", "RTEA9R"}}

\* the adapters of the family a registry tool names
FamilyOfTool(tool) ==
    CASE tool = "DGGRID" -> {"Isea3hImpl", "Igeo7Impl"}
      [] tool = "H3O" -> {"H3Impl"}
      [] tool = "DGGAL" -> {"DggalImpl"}
      [] OTHER -> {}

\* C17: factory::get(id) returns, for every grid identifier, the adapter
\* family named by the identifier's registry tool, and an 'unsupported'
\* error exactly when the identifier/tool pairing has no adapter.
C17_FactoryFamily ==
    (rStage = "got") =>
        LET id == rUid.val
            tool == spec(id).tool
        IN  /\ rGot.ok <=> <<tool, id>> \in SupportedPairings
            /\ rGot.ok => rGot.val.impl \in FamilyOfTool(tool) /\ rGot.val.id = id
            /\ ~rGot.ok => rGot.err = "Unsupported"

\* a DGGAL grid was fetched and came as the native-library adapter
C17_Witness ==
    /\ rStage = "got" /\ rUid = Ok("IVEA9R")
    /\ rGot = Ok(Adapter("DggalImpl", "IVEA9R"))

\* the text as identifier parsing compares it
NormalizedUidText(t) == replace_underscore(to_ascii_lowercase(Trim(t)))

\* the entries whose name the text is
NamedBy(t) ==
    {i \in 1..Len(DGGRS_SPECS) :
        NormalizedUidText(t) = to_ascii_lowercase(ShortText(DGGRS_SPECS[i]))}

\* C18: parsing a grid identifier accepts the canonical name+tool form of
\* every registry entry, and accepts the short name-only form only when the
\* name belongs to exactly one entry; a name shared by two entries (ISEA3H)
\* does not silently resolve to one of them.
C18_UidParsing ==
    (rStage # "input") =>
        /\ \A i \in 1..Len(DGGRS_SPECS) :
              NormalizedUidText(rText) = to_ascii_lowercase(CanonicalText(DGGRS_SPECS[i]))
                  => rUid = Ok(DGGRS_SPECS[i].id)
        /\ Cardinality(NamedBy(rText)) = 1 =>
              \A i \in NamedBy(rText) : rUid = Ok(DGGRS_SPECS[i].id)
        /\ Cardinality(NamedBy(rText)) > 1 => ~rUid.ok

(***************************************************************************)
(* Claims about the DGGAL context                                          *)
(***************************************************************************)
\* C4: access to the process-wide DGGAL context is serialized: no two
\* threads are ever inside a library call at the same time.
C4_NoTwoInLibrary ==
    \A t1 \in Threads : \A t2 \in Threads :
        t1 # t2 => ~(InLibrary(t1) /\ InLibrary(t2))

\* a thread waits for a context that is being initialised, or runs
GPending(t) == gThr[t].pc # "idle"

\* C5: GLOBAL_APP and GLOBAL_DGGAL are each created at most once, lazily on
\* first use, also when several threads make their first call concurrently;
\* every call past get_dggrs's dereference uses these two objects, and
\* initialization never deadlocks (while a thread is inside a call, some
\* thread can take a step).
C5_CreatedOnce ==
    /\ gApp.created <= 1
    /\ gDggal.created <= 1
    /\ gApp.created = 0 <=> gApp.state # "done"
    /\ gDggal.created = 0 <=> gDggal.state # "done"
    /\ \A t \in Threads :
          gThr[t].pc \in {"lock", "lookup"} => gDggal.created = 1 /\ gApp.created = 1
    /\ (\E t \in Threads : GPending(t)) => ENABLED GNext

\* one thread runs the closure of GLOBAL_DGGAL while another thread's first
\* call waits for it
C5_Witness ==
    \E t1 \in Threads : \E t2 \in Threads :
        /\ t1 # t2
        /\ gThr[t1].pc = "dggal_new"
        /\ gThr[t2].pc = "run" /\ gThr[t2].prog # <<>> /\ Head(gThr[t2].prog) = "G"
        /\ gApp.created = 1

(***************************************************************************)
(* Claims about the DGGRID adapter's temp files                            *)
(***************************************************************************)
\* the call returned Ok or Err (it did not unwind)
Returned(call) == call.pc = "done" /\ (call.result.ok \/ call.result.err # "panic")

\* no other call drew the same token
OwnToken(c) == \A c2 \in Callers : c2 # c => dCall[c2].code # dCall[c].code

\* C1: after any DGGRID adapter call, whether it returned Ok or Err, none of
\* the six temp file paths derived for that call still exists on disk (for a
\* call that shares its token with no other call).
C1_NoTempFilesLeft ==
    \A c \in Callers :
        (Returned(dCall[c]) /\ OwnToken(c)) =>
            \A path \in SixPaths(dCall[c].paths) : ~FsExists(dFs, path)

BackendWork == {"tempfile", "process", "lock", "library", "tiler"}

PortDone(op) == pCall.stage = "done" /\ pCall.op = op

\* C2: for every adapter, with or without a bbox, zones_from_bbox called with
\* refinement_level = max_refinement_level + 1 returns a limit error and has
\* done no backend work (no temp file, no process, no lock or library access,
\* no tiler call)
C2_FailFastOnLimit ==
    (PortDone("zones_from_bbox") /\ pCall.level = pCall.max_level + 1)
        => /\ IsLimitError(pCall.result)
           /\ pCall.fx \cap BackendWork = {}

\* C3: for every adapter, zones_from_parent returns zones only when
\* relative_depth is within max_relative_depth and parent resolution plus
\* relative_depth is within max_refinement_level
C3_ParentBounds ==
    (PortDone("zones_from_parent") /\ pCall.result.ok)
        => /\ pCall.depth <= pCall.max_depth
           /\ pCall.parent_res + pCall.depth <= pCall.max_level

\* region, center, children, neighbors and area_sqm are all switched off
GatedConfig(cfg) ==
    ~cfg.region /\ ~cfg.center /\ ~cfg.children /\ ~cfg.neighbors /\ ~cfg.area_sqm

\* C7: for every adapter and query, a config with region, center, children,
\* neighbors and area_sqm false yields zones with those five fields absent,
\* and vertex_count present exactly when vertex_count is true
C7_ConfigGating ==
    (pCall.stage = "done" /\ pCall.result.ok /\ GatedConfig(pCall.cfg))
        => \A i \in 1..Len(pCall.result.val) :
              LET z == pCall.result.val[i]
              IN  /\ z.region = "None" /\ z.center = "None"
                  /\ z.children = "None" /\ z.neighbors = "None"
                  /\ z.area_sqm = "None"
                  /\ (z.vertex_count = "Some") <=> pCall.cfg.vertex_count

\* C8: for every adapter, zone_from_point and zone_from_id return exactly one
\* zone whenever they return Ok, whatever the backend wrote or returned
C8_SingleZone ==
    (pCall.stage = "done" /\ pCall.op \in {"zone_from_point", "zone_from_id"}
        /\ pCall.result.ok)
        => Len(pCall.result.val) = 1

\* C16: the Zones collection every adapter returns lists the zones in the
\* order the backend enumerated them (for the external-process adapter the
\* order of the records of the polygon-output file); it is never re-sorted.
\* Stated for enumerations that name every zone once.
C16_BackendOrder ==
    (/\ pCall.stage = "done" /\ pCall.result.ok
     /\ \A i, j \in 1..Len(pCall.listed) : pCall.listed[i] = pCall.listed[j] => i = j) =>
        /\ Len(pCall.result.val) = Len(pCall.listed)
        /\ \A i \in 1..Len(pCall.result.val) : pCall.result.val[i].id = pCall.listed[i]

\* C19: in every external-process adapter call that reaches execution the
\* tool is started exactly once, and a failure of that execution (tool
\* missing, non-zero exit) makes the call return an error rather than Ok.
C19_ToolOnceAndFailureIsError ==
    (pCall.stage = "done" /\ pCall.adapter = "DGGRID" /\ "process" \in pCall.fx) =>
        /\ pCall.execs = 1
        /\ pCall.tool_failed => ~pCall.result.ok

\* the files an operation writes before it runs the tool
WrittenBy(call) ==
    {"meta"}
    \cup (IF call.op = "zones_from_bbox" /\ call.hasBbox THEN {"bbox"} ELSE {})
    \cup (IF call.op \in {"zone_from_point", "zone_from_id"} THEN {"txt"} ELSE {})

\* C20: every error inside an adapter call is returned to the caller as an
\* Err value; in particular a failure to write the metafile, the bbox file
\* or the input file makes the call return Err (not continue, not panic).
C20_WriteFailureIsErr ==
    (pCall.stage = "done" /\ pCall.adapter = "DGGRID"
        /\ pCall.iofail \cap WrittenBy(pCall) # {}) =>
        /\ ~pCall.result.ok
        /\ pCall.result.err # "panic"
        /\ "process" \notin pCall.fx

(***************************************************************************)
(* Claims about RefinementLevel and RelativeDepth                          *)
(***************************************************************************)
\* min(level + depth, i32 max), computed without leaving the i32 range
SaturatedSum(a, b) == IF a > I32Max - b THEN I32Max ELSE a + b

\* C21: RefinementLevel::add saturates: for non-negative operands it returns
\* Ok with the level min(level + depth, i32 max); never Err, never a panic,
\* never a negative or wrapped value.
C21_AddSaturates ==
    (nLevel.r.ok /\ nDepth.r.ok /\ nLevel.r.val >= 0 /\ nDepth.r.val >= 0) =>
        \/ nSum = NoSum
        \/ /\ nSum.ok
           /\ nSum.val >= 0
           /\ nSum.val = SaturatedSum(nLevel.r.val, nDepth.r.val)

\* a u32 equals an i32
SameAsU32(v, i) == i >= 0 /\ i \div LimbBase = v[1] /\ i % LimbBase = v[2]

\* the value was obtained without loss
Lossless(o) ==
    /\ o.r.ok => o.r.val >= 0
    /\ o.via = "from_u8" => o.r.ok /\ o.r.val = o.input
    /\ o.via = "from_u32" => o.r.ok /\ SameAsU32(o.input, o.r.val)

\* C26: every RefinementLevel and RelativeDepth obtained through new,
\* TryFrom<i32>, From<u8> or From<u32> is non-negative, and for every u8 or
\* u32 input v, get() of the result equals v.
C26_NonNegativeAndLossless == Lossless(nLevel) /\ Lossless(nDepth)

(***************************************************************************)
(* Claims about the subtree query of the external-process adapters         *)
(***************************************************************************)
\* the text of the parent id of a call
ParentText(call) ==
    IF call.zid.tag = "Text" THEN call.zid.text ELSE ZoneId_display(call.zid)

\* the resolution encoded in the bit-packed digits of the parent id
DecodedParent(call) ==
    IF call.adapter = "IGEO7" THEN extract_res_from_z7(call.zid.text)
    ELSE get_refinement_level_from_z3_zone_id(call.zid)

\* C22: for zones_from_parent(relative_depth, parent) of both external-process
\* grid families the metafile's dggs_res_spec is the parent's decoded
\* resolution + relative_depth, clip_cell_res is the resolution decoded from
\* the parent id's bit-packed digits, and clip_cell_addresses is the parent id
\* text unchanged.
C22_SubtreeMetafile ==
    (/\ pCall.stage = "done"
     /\ pCall.adapter \in {"DGGRID", "IGEO7"}
     /\ pCall.op = "zones_from_parent"
     /\ pCall.meta # NoMeta
     /\ DecodedParent(pCall).ok) =>
        /\ pCall.meta.dggs_res_spec = DecodedParent(pCall).val + pCall.depth
        /\ pCall.meta.clip_cell_res = NumberOf(DecodedParent(pCall).val)
        /\ pCall.meta.clip_cell_addresses = ParentText(pCall)

(***************************************************************************)
(* Claims about the order of the steps of one external-process call        *)
(***************************************************************************)
\* write, then the tool, then the read, then the deletion
StepOrder == <<"write", "exec", "read", "delete">>

IsPrefix(s, t) == Len(s) <= Len(t) /\ \A i \in 1..Len(s) : s[i] = t[i]

\* C23: within one external-process adapter call every write to the call's
\* temp files completes before the tool is executed, the tool's execution
\* completes before the output files are read, and the files are deleted only
\* after the read, with no write to any of the six paths after the deletion.
C23_StepsOrdered ==
    \A c \in Callers :
        /\ IsPrefix(dCall[c].log, StepOrder)
        /\ dCall[c].execs > 0 <=> Len(dCall[c].log) >= 2
        /\ (Finished(dCall[c]) /\ dCall[c].result.ok) => dCall[c].log = StepOrder

\* a call returned Ok after it wrote, ran the tool, read and deleted
C23_Witness ==
    \E c \in Callers :
        /\ Finished(dCall[c]) /\ dCall[c].result.ok
        /\ dCall[c].op \in {"zone_from_point", "zone_from_id"}
        /\ dCall[c].log = StepOrder

(***************************************************************************)
(* Claims about the resolution of a bounding-box query                     *)
(***************************************************************************)
\* C24: for every adapter zones_from_bbox(refinement_level, Some(bbox), config)
\* hands the caller's refinement_level to the backend's enumeration or tiling
\* step, so every zone returned is at the requested level.
C24_BboxAtRequestedLevel ==
    (/\ pCall.stage = "done"
     /\ pCall.op = "zones_from_bbox"
     /\ pCall.hasBbox
     /\ pCall.result.ok) =>
        pCall.backend_res = pCall.level

(***************************************************************************)
(* Claims about the parsers of the tool's output                           *)
(***************************************************************************)
\* two lines of the file start with the same zone id
DuplicateKey(lines) ==
    \E i, j \in 1..Len(lines) :
        /\ i < j
        /\ lines[i] # <<>> /\ lines[j] # <<>>
        /\ lines[i][1] = lines[j][1]

\* a line has more tokens than a header, a vertex or an END line
WrongTokenCount(lines) == \E i \in 1..Len(lines) : Len(lines[i]) > 3

\* C25: parsing the tool's output surfaces malformed lines as an error: a
\* children/neighbor file with two lines for the same zone id yields an
\* error, and a polygon-output line whose token count matches none of header
\* (3), vertex (2) or END (1) yields an error rather than being skipped.
C25_MalformedLinesAreErrors ==
    lStage = "parsed" =>
        /\ (lKind = "id_list" /\ DuplicateKey(lLines)) => ~lOut.ok
        /\ (lKind = "aigen" /\ WrongTokenCount(lLines)) => ~lOut.ok

(***************************************************************************)
(* Claims about zone ids handed from one operation to the next             *)
(***************************************************************************)
\* the errors an operation returns when it cannot read the id it is given
IdFormatErrors ==
    {"UnsupportedZoneIdFormat", "InvalidZ3Format", "InvalidZoneID", "InvalidHexId"}

C28_IndexConsistent ==
    /\ \A u \in DggrsUids :
          /\ idx(u) \in 0..(Len(DGGRS_SPECS) - 1)
          /\ DGGRS_SPECS[idx(u) + 1].id = u
          /\ spec(u).id = u
    /\ \A u1 \in DggrsUids : \A u2 \in DggrsUids : idx(u1) = idx(u2) => u1 = u2
    /\ (rStage \in {"parsed", "got"} /\ rUid.ok) => spec(rUid.val).id = rUid.val
    /\ (rStage = "got" /\ rGot.ok) => spec(rGot.val.id).id = rUid.val

\* an adapter was obtained for H3 and its entry is the third of the table
C28_Witness ==
    /\ rStage = "got" /\ rUid = Ok("H3") /\ rGot.ok
    /\ idx(rUid.val) = 2
    /\ spec(rGot.val.id) = DGGRS_SPECS[3]
    /\ spec(rGot.val.id).tool = "H3O"

(***************************************************************************)
(* Claims about the query point                                            *)
(***************************************************************************)
\* C29: all three adapters read the query point the same way in
\* zone_from_point: the latitude handed to the backend is point.y and the
\* longitude is point.x.
C29_PointReadAlike ==
    cStage \in {"pointed", "done"} =>
        /\ cHanded.lat = cPoint.y
        /\ cHanded.lon = cPoint.x

(***************************************************************************)
(* Claims about the flattened export                                       *)
(***************************************************************************)
\* the per-zone arrays of a JsZones value
PerZoneArrays ==
    {"id_offsets", "center_x", "center_y", "vertex_count", "region_offsets",
     "children_offsets", "neighbors_offsets"}

\* C30: for every Zones value with n zones, whatever optional fields are
\* absent, to_export yields id_offsets, center_x, center_y, vertex_count,
\* region_offsets, children_offsets and neighbors_offsets each of length n,
\* and to_import on the result does not index out of bounds.
C30_ExportAligned ==
    /\ eStage \in {"exported", "imported"} =>
          \A f \in PerZoneArrays : Len(eOut[f]) = Len(eZones)
    /\ eStage = "imported" => eBack.ok

====
